---------------------------- MODULE Spec2Model ----------------------------
(***************************************************************************)
(* Session-based authentication backend (Next.js route handlers over a     *)
(* MongoDB store): register, login, logout, logout-all, profile GET /      *)
(* PATCH / DELETE.  Every handler is a process that runs from one store    *)
(* call (await) to the next; each store call is one atomic step, so the    *)
(* handlers of concurrent requests interleave exactly at their awaits.     *)
(* Time is counted in seconds.                                             *)
(***************************************************************************)
EXTENDS Integers, Sequences, FiniteSets, TLC

(***************************************************************************)
(* Bounds of the model.                                                    *)
(***************************************************************************)
MaxProcs == 2
MaxUsers == 2
MaxTokens == 3
MaxAdvance == 2
MaxOver == 1
MaxRace == 4
MaxSeq == 2

Procs == 1..MaxProcs
SeqProcs == {1}
UserIds == 1..MaxUsers
Tokens == 1..MaxTokens

(***************************************************************************)
(* Program constants.                                                      *)
(***************************************************************************)
MAX_LOGIN_ATTEMPTS == 5
LOCKOUT_DURATION == 30 * 60
SessionTtl(rememberMe) == IF rememberMe THEN 30 * 24 * 60 * 60 ELSE 24 * 60 * 60
\* A cookie that lasts a day whatever was asked for.
CookieMaxAge_OneDay(rememberMe) == 24 * 60 * 60
CookieMaxAge(rememberMe) == IF rememberMe THEN 30 * 24 * 60 * 60 ELSE 24 * 60 * 60
\* A login limit that is one too high.
LoginLimit_OneMore == 10 + 1
LoginLimit == 10
LoginInterval == 15 * 60
RegisterLimit == 5
RegisterInterval == 60 * 60

(***************************************************************************)
(* Values of optional fields: a field holding null, and a field that is    *)
(* not in the document ($unset).  Dates are naturals, so both are < 0.     *)
(***************************************************************************)
Null == 0 - 1
Absent == 0 - 2
NoUser == [none |-> TRUE]
NoToken == 0
Unlimited == 0 - 1

(***************************************************************************)
(* Inputs.  Passwords are sequences of characters, emails are strings with *)
(* their lower-casing given explicitly.                                    *)
(***************************************************************************)
PwGood == <<"A", "b", "c", "d", "e", "f", "1", "!">>
PwOther == <<"X", "y", "z", "w", "v", "u", "2", "?">>
PwNew == <<"N", "e", "w", "p", "a", "s", "s", "9", "$">>
PwWeak == <<"a", "b", "c">>
PwEmpty == <<>>
PwCommon == <<"P", "a", "s", "s", "w", "o", "r", "d", "1", "!">>
Passwords == {PwGood, PwOther, PwNew, PwWeak, PwEmpty}

EmailInputs == {"a@b.com", "A@B.com", "c@d.com", "nobody@d.com", "not-an-email"}
IsEmail(e) == e \in {"a@b.com", "A@B.com", "c@d.com", "nobody@d.com"}
\* A normalisation that keeps the letter case.
ToLowerCase_AsTyped(e) == e
ToLowerCase(e) == IF e = "A@B.com" THEN "a@b.com" ELSE e

IPs == {"10.0.0.1", "10.0.0.2"}
UserAgent == "agent"

\* The letters a-z and A-Z in order, so that the i-th of one is the other
\* case of the i-th of the other.
LowerLetters ==
    <<"a", "b", "c", "d", "e", "f", "g", "h", "i", "j", "k", "l", "m",
      "n", "o", "p", "q", "r", "s", "t", "u", "v", "w", "x", "y", "z">>
UpperLetters ==
    <<"A", "B", "C", "D", "E", "F", "G", "H", "I", "J", "K", "L", "M",
      "N", "O", "P", "Q", "R", "S", "T", "U", "V", "W", "X", "Y", "Z">>
LowerChars == {LowerLetters[i] : i \in DOMAIN LowerLetters}
UpperChars == {UpperLetters[i] : i \in DOMAIN UpperLetters}
DigitChars == {"0", "1", "2", "3", "4", "5", "6", "7", "8", "9"}
SpecialChars == {"@", "$", "!", "%", "*", "?", "&"}
HasChar(p, S) == \E i \in 1..Len(p) : p[i] \in S

\* bcrypt.hash / bcrypt.compare: an opaque one-way digest and its check.
Hash(p) == [digest |-> p]
\* A comparison that accepts every password.
Compare_Any(p, d) == TRUE
Compare(p, d) == d = Hash(p)

\* registerSchema: the password regex is anchored at the start only, so it
\* constrains the four look-aheads and the first character.
RegisterPasswordOK(p) ==
    /\ Len(p) >= 8
    /\ Len(p) <= 128
    /\ HasChar(p, LowerChars)
    /\ HasChar(p, UpperChars)
    /\ HasChar(p, DigitChars)
    /\ HasChar(p, SpecialChars)
    /\ p[1] \in LowerChars \cup UpperChars \cup DigitChars \cup SpecialChars
RegisterSchemaOK(email, p) == IsEmail(email) /\ RegisterPasswordOK(p)

\* loginSchema: a well-formed email and a non-empty password.
LoginSchemaOK(email, p) == IsEmail(email) /\ Len(p) >= 1

(***************************************************************************)
(* lib/validation.ts: passwordSchema.  Each check of the schema adds its   *)
(* issue when it fails, and the parse succeeds when there is no issue.     *)
(***************************************************************************)
\* String.prototype.toLowerCase, a character at a time.
CharToLowerCase(c) ==
    IF c \in UpperChars
    THEN LowerLetters[CHOOSE i \in DOMAIN UpperLetters : UpperLetters[i] = c]
    ELSE c
\* A lower-casing that leaves the password as it was typed.
PasswordToLowerCase_AsTyped(p) == p
PasswordToLowerCase(p) == [i \in DOMAIN p |-> CharToLowerCase(p[i])]

\* String.prototype.includes
Includes(s, t) ==
    \E i \in 0..(Len(s) - Len(t)) : SubSeq(s, i + 1, i + Len(t)) = t

commonPasswords ==
    {<<"p", "a", "s", "s", "w", "o", "r", "d">>,
     <<"1", "2", "3", "4", "5", "6", "7", "8">>,
     <<"q", "w", "e", "r", "t", "y", "1", "2", "3">>,
     <<"a", "d", "m", "i", "n", "1", "2", "3">>,
     <<"l", "e", "t", "m", "e", "i", "n">>,
     <<"w", "e", "l", "c", "o", "m", "e", "1", "2", "3">>}

PasswordIssues(p) ==
    {m \in {"Password must be at least 8 characters"} : Len(p) < 8}
    \cup {m \in {"Password too long"} : Len(p) > 128}
    \cup {m \in {"Password must contain at least one lowercase letter"} :
             ~HasChar(p, LowerChars)}
    \cup {m \in {"Password must contain at least one uppercase letter"} :
             ~HasChar(p, UpperChars)}
    \cup {m \in {"Password must contain at least one number"} :
             ~HasChar(p, DigitChars)}
    \cup {m \in {"Password must contain at least one special character (@$!%*?&)"} :
             ~HasChar(p, SpecialChars)}
    \cup {m \in {"Password contains common patterns and is not secure"} :
             \E common \in commonPasswords :
                 Includes(PasswordToLowerCase(p), common)}

\* passwordSchema.safeParse(p)
PasswordSafeParse(p) ==
    [success |-> PasswordIssues(p) = {}, issues |-> PasswordIssues(p)]

(***************************************************************************)
(* lib/validation.ts: checkPasswordStrength.                               *)
(***************************************************************************)
DigitSequence == <<"0", "1", "2", "3", "4", "5", "6", "7", "8", "9">>
\* The characters that "." of a regular expression does not match.
LineTerminators == {"\n", "\r"}

\* /(.)\1{2,}/: a character that "." matches, followed by itself twice.
HasRepeat(p) ==
    \E i \in 1..(Len(p) - 2) :
        /\ p[i] \notin LineTerminators
        /\ p[i + 1] = p[i]
        /\ p[i + 2] = p[i]

\* The alternatives of the last pattern: 012 ... 789, 890, abc ... xyz.
SequentialPatterns ==
    {SubSeq(DigitSequence \o <<"0">>, k, k + 2) : k \in 1..(Len(DigitSequence) - 1)}
    \cup {SubSeq(LowerLetters, k, k + 2) : k \in 1..(Len(LowerLetters) - 2)}
\* /(?:012|...|xyz)/i
HasSequential(p) ==
    \E i \in 1..(Len(p) - 2) :
        PasswordToLowerCase(SubSeq(p, i, i + 2)) \in SequentialPatterns

Point(test) == IF test THEN 1 ELSE 0
Feedback(test, message) == IF test THEN {} ELSE {message}

checkPasswordStrength(p) ==
    LET long8 == Len(p) >= 8
        long12 == Len(p) >= 12
        lower == HasChar(p, LowerChars)
        upper == HasChar(p, UpperChars)
        digit == HasChar(p, DigitChars)
        other == \E i \in DOMAIN p :
                     p[i] \notin LowerChars \cup UpperChars \cup DigitChars
        norepeat == ~HasRepeat(p)
        nosequence == ~HasSequential(p)
        score == Point(long8) + Point(long12) + Point(lower) + Point(upper)
                 + Point(digit) + Point(other) + Point(norepeat)
                 + Point(nosequence)
    IN  [score |-> score,
         feedback |->
             Feedback(long8, "Use at least 8 characters")
             \cup Feedback(long12, "Consider using 12+ characters for better security")
             \cup Feedback(lower, "Add lowercase letters")
             \cup Feedback(upper, "Add uppercase letters")
             \cup Feedback(digit, "Add numbers")
             \cup Feedback(other, "Add special characters")
             \cup Feedback(norepeat, "Avoid repeating characters")
             \cup Feedback(nosequence, "Avoid sequential characters"),
         isStrong |-> score >= 6]

VARIABLES
    users,          \* users collection: _id -> document, or NoUser
    sessions,       \* sessions collection: a set of documents
    nextUid,        \* next ObjectId the store hands to an inserted user
    nextToken,      \* next value of crypto.randomUUID()
    clock,          \* new Date(), in seconds
    advances,       \* how many times the clock has been moved
    loginBucket,    \* login limiter: ip -> [count, resetAt]
    registerBucket, \* register limiter: ip -> [count, resetAt]
    req,            \* per request slot: the handler's position and locals
    resp,           \* per request slot: the response of the last request
    budget,         \* how many more requests the run takes (Unlimited: any)
    failedSince,    \* history: failed verifications since the last reset
    mate            \* history: the request that read the same counter value

vars == <<users, sessions, nextUid, nextToken, clock, advances, loginBucket,
          registerBucket, req, resp, budget, failedSince, mate>>

Idle == [pc |-> "idle"]
NoResp == [status |-> 0, code |-> "NONE"]
Response(status, code) == [status |-> status, code |-> code]

Busy(r) == req[r].pc \notin {"idle", "done"}

(***************************************************************************)
(* The store.                                                              *)
(***************************************************************************)
FindUserByEmail(email) ==
    LET hit == {u \in UserIds : users[u] # NoUser /\ users[u].email = email}
    IN  IF hit = {} THEN 0 ELSE CHOOSE u \in hit : \A v \in hit : u <= v

AttemptsOf(doc) == IF doc.loginAttempts = Absent THEN 0 ELSE doc.loginAttempts
\* A lock check that never finds the account locked.
IsLocked_Never(doc, now) == FALSE
\* A lock check that still holds at the instant the lock runs out.
IsLocked_Through(doc, now) == doc.lockUntil >= 0 /\ doc.lockUntil >= now
IsLocked(doc, now) == doc.lockUntil >= 0 /\ doc.lockUntil > now

\* sessions.findOne({ token, expiresAt: { $gt: new Date() } })
\* A lookup that still accepts a session at its expiry instant.
FindValidSession_Inclusive(token, now) ==
    {s \in sessions : s.token = token /\ s.expiresAt >= now}
\* A lookup by token alone, whatever the expiry.
FindValidSession_AnyAge(token, now) == {s \in sessions : s.token = token}
FindValidSession(token, now) ==
    {s \in sessions : s.token = token /\ s.expiresAt > now}
\* sessions.findOne({ token })
\* A lookup by token that returns every session of the token's owner.
FindSession_OfOwner(token) ==
    {s \in sessions : \E t \in sessions : t.token = token /\ s.userId = t.userId}
FindSession(token) == {s \in sessions : s.token = token}

(***************************************************************************)
(* The rate limiter (lib/rate-limit): a counter per client identity and a  *)
(* window; a request past the limit is rejected, and still counted.        *)
(***************************************************************************)
FreshBucket == [count |-> 0, resetAt |-> 0]
BucketAfter(b, interval, now) ==
    IF b.count = 0 \/ now >= b.resetAt
    THEN [count |-> 1, resetAt |-> now + interval]
    ELSE [count |-> b.count + 1, resetAt |-> b.resetAt]
Admitted(b, limit) == b.count <= limit

Init ==
    /\ users = [u \in UserIds |-> NoUser]
    /\ sessions = {}
    /\ nextUid = 1
    /\ nextToken = 1
    /\ clock = 0
    /\ advances = 0
    /\ loginBucket = [i \in IPs |-> FreshBucket]
    /\ registerBucket = [i \in IPs |-> FreshBucket]
    /\ req = [r \in Procs |-> Idle]
    /\ resp = [r \in Procs |-> NoResp]
    /\ failedSince = [u \in UserIds |-> 0]
    /\ mate = [r \in Procs |-> 0]
    /\ budget = Unlimited

Finish(r, response) ==
    /\ req' = [req EXCEPT ![r] = [pc |-> "done", op |-> req[r].op]]
    /\ resp' = [resp EXCEPT ![r] = response]

(***************************************************************************)
(* Starting a request: a slot that is idle or holds a finished request     *)
(* takes the next one.  InFlight(op) counts the running requests that will *)
(* still draw a fresh identifier.                                          *)
(***************************************************************************)
InFlight(op) == Cardinality({q \in Procs : Busy(q) /\ req[q].op = op})
Begin(r) ==
    /\ ~Busy(r)
    /\ budget # 0
    /\ budget' = IF budget = Unlimited THEN budget ELSE budget - 1
    /\ mate' = [mate EXCEPT ![r] = 0]

\* A window's counter is not followed past MaxOver rejected requests.
BucketOpen(b, limit) == b.count < limit + MaxOver \/ clock >= b.resetAt

(***************************************************************************)
(* POST /api/login                                                         *)
(***************************************************************************)
\* limiter.check(10, ip), req.json(), loginSchema.safeParse(body)
\* A login that goes on to the store whatever the limiter said.
LoginStart_Unlimited(r, ip, wellFormed, email, password, rememberMe) ==
    /\ Begin(r)
    /\ BucketOpen(loginBucket[ip], LoginLimit)
    /\ nextToken + InFlight("login") <= MaxTokens
    /\ loginBucket' = [loginBucket EXCEPT ![ip] =
                          BucketAfter(loginBucket[ip], LoginInterval, clock)]
    /\ req' = [req EXCEPT ![r] =
                 [pc |-> "login_find", op |-> "login",
                  email |-> ToLowerCase(email), password |-> password,
                  rememberMe |-> rememberMe, ip |-> ip]]
    /\ resp' = [resp EXCEPT ![r] = NoResp]
    /\ UNCHANGED <<users, sessions, nextUid, nextToken, clock, advances,
                   registerBucket, failedSince>>
LoginStart(r, ip, wellFormed, email, password, rememberMe) ==
    /\ Begin(r)
    /\ BucketOpen(loginBucket[ip], LoginLimit)
    /\ nextToken + InFlight("login") <= MaxTokens
    /\ LET b == BucketAfter(loginBucket[ip], LoginInterval, clock)
       IN  /\ loginBucket' = [loginBucket EXCEPT ![ip] = b]
           /\ IF ~Admitted(b, LoginLimit)
              THEN /\ req' = [req EXCEPT ![r] = [pc |-> "done", op |-> "login"]]
                   /\ resp' = [resp EXCEPT ![r] = Response(429, "RATE_LIMIT_EXCEEDED")]
              ELSE IF ~wellFormed
              THEN /\ req' = [req EXCEPT ![r] = [pc |-> "done", op |-> "login"]]
                   /\ resp' = [resp EXCEPT ![r] = Response(400, "INVALID_JSON")]
              ELSE IF ~LoginSchemaOK(email, password)
              THEN /\ req' = [req EXCEPT ![r] = [pc |-> "done", op |-> "login"]]
                   /\ resp' = [resp EXCEPT ![r] = Response(400, "VALIDATION_ERROR")]
              ELSE /\ req' = [req EXCEPT ![r] =
                            [pc |-> "login_find", op |-> "login",
                             email |-> ToLowerCase(email), password |-> password,
                             rememberMe |-> rememberMe, ip |-> ip]]
                   /\ resp' = [resp EXCEPT ![r] = NoResp]
    /\ UNCHANGED <<users, sessions, nextUid, nextToken, clock, advances,
                   registerBucket, failedSince>>

\* The other requests that failed verification against the same value of
\* the counter and have not written yet.
PendingFailures(r, uid, attempts) ==
    {q \in Procs \ {r} : /\ req[q].pc = "login_fail"
                          /\ req[q].uid = uid
                          /\ AttemptsOf(req[q].user) = attempts}

\* users.findOne({ email }), the lock check, bcrypt.compare
LoginFindUser(r) ==
    /\ req[r].pc = "login_find"
    /\ LET uid == FindUserByEmail(req[r].email)
           doc == users[uid]
           now == clock
       IN  IF uid = 0
           THEN /\ Finish(r, Response(401, "INVALID_CREDENTIALS") @@
                             [locked |-> FALSE, attemptsRemaining |-> Absent,
                              message |-> "Invalid email or password",
                              fields |-> {"message", "code"}])
                /\ mate' = mate
           ELSE IF IsLocked(doc, now)
           THEN /\ Finish(r, Response(423, "ACCOUNT_LOCKED") @@
                             [lockUntil |-> doc.lockUntil, uid |-> uid])
                /\ mate' = mate
           ELSE IF ~Compare(req[r].password, doc.password)
           THEN /\ req' = [req EXCEPT ![r] =
                         [@ EXCEPT !.pc = "login_fail"] @@
                         [uid |-> uid, user |-> doc, now |-> now]]
                /\ resp' = resp
                /\ LET P == PendingFailures(r, uid, AttemptsOf(doc))
                   IN  IF P = {} THEN mate' = mate
                       ELSE LET q == CHOOSE x \in P : TRUE
                            IN  mate' = [mate EXCEPT ![r] = q, ![q] = r]
           ELSE /\ req' = [req EXCEPT ![r] =
                         [@ EXCEPT !.pc = "login_ok"] @@
                         [uid |-> uid, user |-> doc, now |-> now]]
                /\ resp' = resp
                /\ mate' = mate
    /\ UNCHANGED <<users, sessions, nextUid, nextToken, clock, advances,
                   loginBucket, registerBucket, failedSince, budget>>

\* The $set of the failed branch: the counter is computed from the document
\* read by findOne, and the lock is part of the same update.
\* A failure update that locks one attempt early.
FailedUpdate_LocksEarly(doc, user, now) ==
    LET loginAttempts == AttemptsOf(user) + 1
    IN  IF loginAttempts >= MAX_LOGIN_ATTEMPTS - 1
        THEN [doc EXCEPT !.loginAttempts = loginAttempts, !.updatedAt = now,
                         !.lockUntil = now + LOCKOUT_DURATION]
        ELSE [doc EXCEPT !.loginAttempts = loginAttempts, !.updatedAt = now]
\* A failure update that locks only past the threshold.
FailedUpdate_LocksLate(doc, user, now) ==
    LET loginAttempts == AttemptsOf(user) + 1
    IN  IF loginAttempts > MAX_LOGIN_ATTEMPTS
        THEN [doc EXCEPT !.loginAttempts = loginAttempts, !.updatedAt = now,
                         !.lockUntil = now + LOCKOUT_DURATION]
        ELSE [doc EXCEPT !.loginAttempts = loginAttempts, !.updatedAt = now]
\* A failure update that counts from zero once a lock has run out.
FailedUpdate_ResetsAfterExpiry(doc, user, now) ==
    LET loginAttempts == IF user.lockUntil >= 0 /\ user.lockUntil <= now THEN 1
                         ELSE AttemptsOf(user) + 1
    IN  IF loginAttempts >= MAX_LOGIN_ATTEMPTS
        THEN [doc EXCEPT !.loginAttempts = loginAttempts, !.updatedAt = now,
                         !.lockUntil = now + LOCKOUT_DURATION]
        ELSE [doc EXCEPT !.loginAttempts = loginAttempts, !.updatedAt = now]
FailedUpdate(doc, user, now) ==
    LET loginAttempts == AttemptsOf(user) + 1
    IN  IF loginAttempts >= MAX_LOGIN_ATTEMPTS
        THEN [doc EXCEPT !.loginAttempts = loginAttempts, !.updatedAt = now,
                         !.lockUntil = now + LOCKOUT_DURATION]
        ELSE [doc EXCEPT !.loginAttempts = loginAttempts, !.updatedAt = now]

\* An update whose filter selects every user.
UpdateOneFailed_EveryUser(us, uid, user, now) ==
    [u \in DOMAIN us |-> IF us[u] = NoUser THEN NoUser
                         ELSE FailedUpdate(us[u], user, now)]
\* An update with upsert: it writes a record where none matches.
UpdateOneFailed_Upsert(us, uid, user, now) ==
    [us EXCEPT ![uid] = FailedUpdate(user, user, now)]
\* users.updateOne({ _id: user._id }, { $set: updateData })
UpdateOneFailed(us, uid, user, now) ==
    IF us[uid] = NoUser THEN us
    ELSE [us EXCEPT ![uid] = FailedUpdate(@, user, now)]

Max(a, b) == IF a >= b THEN a ELSE b

\* users.updateOne({ _id }, { $set: updateData }) and the 401 response
LoginRecordFailure(r) ==
    /\ req[r].pc = "login_fail"
    /\ LET uid == req[r].uid
           loginAttempts == AttemptsOf(req[r].user) + 1
       IN  /\ users' = UpdateOneFailed(users, uid, req[r].user, req[r].now)
           /\ failedSince' = [failedSince EXCEPT ![uid] = @ + 1]
           /\ req' = [req EXCEPT ![r] = [pc |-> "done", op |-> "login"]]
           /\ resp' = [resp EXCEPT ![r] =
                  Response(401, "INVALID_CREDENTIALS") @@
                  [locked |-> loginAttempts >= MAX_LOGIN_ATTEMPTS,
                   attemptsRemaining |-> Max(0, MAX_LOGIN_ATTEMPTS - loginAttempts),
                   message |-> IF loginAttempts >= MAX_LOGIN_ATTEMPTS
                               THEN "Too many failed attempts. Account has been locked."
                               ELSE "Invalid email or password",
                   fields |-> {"message", "code", "attemptsRemaining"},
                   uid |-> uid, read |-> AttemptsOf(req[r].user)]]
    /\ UNCHANGED <<sessions, nextUid, nextToken, clock, advances, loginBucket,
                   registerBucket, budget, mate>>

\* The $set / $unset of the successful branch.
SuccessUpdate(doc, now) ==
    [doc EXCEPT !.lastLogin = now, !.updatedAt = now,
                !.loginAttempts = Absent, !.lockUntil = Absent]

\* users.updateOne({ _id }, { $set: ..., $unset: ... })
LoginRecordSuccess(r) ==
    /\ req[r].pc = "login_ok"
    /\ LET uid == req[r].uid
       IN  /\ users' = IF users[uid] = NoUser THEN users
                       ELSE [users EXCEPT ![uid] = SuccessUpdate(@, req[r].now)]
           /\ failedSince' = [failedSince EXCEPT ![uid] = 0]
    /\ req' = [req EXCEPT ![r] = [@ EXCEPT !.pc = "login_session"]]
    /\ UNCHANGED <<sessions, nextUid, nextToken, clock, advances, loginBucket,
                   registerBucket, resp, budget, mate>>

\* The session document of sessions.insertOne.
NewSession(token, r) ==
    [token |-> token, userId |-> req[r].uid, createdAt |-> req[r].now,
     expiresAt |-> req[r].now + SessionTtl(req[r].rememberMe),
     userAgent |-> UserAgent, ip |-> req[r].ip, rememberMe |-> req[r].rememberMe]

\* crypto.randomUUID(), sessions.insertOne, the 200 response and its cookie
LoginCreateSession(r) ==
    /\ req[r].pc = "login_session"
    /\ sessions' = sessions \cup {NewSession(nextToken, r)}
    /\ nextToken' = nextToken + 1
    /\ req' = [req EXCEPT ![r] = [pc |-> "done", op |-> "login"]]
    /\ resp' = [resp EXCEPT ![r] =
           Response(200, "LOGIN_SUCCESS") @@
           [uid |-> req[r].uid, cookie |-> nextToken,
            maxAge |-> CookieMaxAge(req[r].rememberMe),
            rememberMe |-> req[r].rememberMe, now |-> req[r].now]]
    /\ UNCHANGED <<users, nextUid, clock, advances, loginBucket, registerBucket,
                   failedSince, budget, mate>>

(***************************************************************************)
(* POST /api/register                                                      *)
(***************************************************************************)
\* limiter.check(5, ip), req.json(), registerSchema.safeParse(body)
RegisterStart(r, ip, wellFormed, email, password) ==
    /\ Begin(r)
    /\ BucketOpen(registerBucket[ip], RegisterLimit)
    /\ nextUid + InFlight("register") <= MaxUsers
    /\ LET b == BucketAfter(registerBucket[ip], RegisterInterval, clock)
       IN  /\ registerBucket' = [registerBucket EXCEPT ![ip] = b]
           /\ IF ~Admitted(b, RegisterLimit)
              THEN /\ req' = [req EXCEPT ![r] = [pc |-> "done", op |-> "register"]]
                   /\ resp' = [resp EXCEPT ![r] = Response(429, "RATE_LIMIT_EXCEEDED")]
              ELSE IF ~wellFormed
              THEN /\ req' = [req EXCEPT ![r] = [pc |-> "done", op |-> "register"]]
                   /\ resp' = [resp EXCEPT ![r] = Response(400, "INVALID_JSON")]
              ELSE IF ~RegisterSchemaOK(email, password)
              THEN /\ req' = [req EXCEPT ![r] = [pc |-> "done", op |-> "register"]]
                   /\ resp' = [resp EXCEPT ![r] = Response(400, "VALIDATION_ERROR")]
              ELSE /\ req' = [req EXCEPT ![r] =
                            [pc |-> "register_find", op |-> "register",
                             input |-> email,
                             email |-> ToLowerCase(email), password |-> password]]
                   /\ resp' = [resp EXCEPT ![r] = NoResp]
    /\ UNCHANGED <<users, sessions, nextUid, nextToken, clock, advances,
                   loginBucket, failedSince>>

\* users.findOne({ email }): the existence check
RegisterFindExisting(r) ==
    /\ req[r].pc = "register_find"
    /\ IF FindUserByEmail(req[r].email) # 0
       THEN Finish(r, Response(409, "USER_EXISTS") @@ [input |-> req[r].input])
       ELSE /\ req' = [req EXCEPT ![r] = [@ EXCEPT !.pc = "register_insert"]]
            /\ resp' = resp
    /\ UNCHANGED <<users, sessions, nextUid, nextToken, clock, advances,
                   loginBucket, registerBucket, failedSince, budget, mate>>

\* The document of users.insertOne.
NewUser(email, password, now) ==
    [email |-> email, password |-> Hash(password), name |-> "null",
     emailVerified |-> FALSE, createdAt |-> now, updatedAt |-> now,
     lastLogin |-> Null, loginAttempts |-> 0, lockUntil |-> Null,
     preferences |-> [notifications |-> TRUE, theme |-> "light"]]

\* bcrypt.hash, users.insertOne, the 201 response.  No code creates the
\* unique index on email that the README documents: when a record with the
\* email has appeared since the existence check, insertOne either inserts a
\* second record (no index) or throws a duplicate key error (index), which
\* the catch answers 500.  existed records which of the two cases it was.
RegisterInsert(r) ==
    /\ req[r].pc = "register_insert"
    /\ LET existed == FindUserByEmail(req[r].email) # 0
           seen == [email |-> req[r].email, existed |-> existed]
       IN  \E duplicateKey \in (IF existed THEN BOOLEAN ELSE {FALSE}) :
              IF duplicateKey
              THEN /\ users' = users
                   /\ nextUid' = nextUid
                   /\ failedSince' = failedSince
                   /\ Finish(r, Response(500, "INTERNAL_ERROR") @@ seen)
              ELSE /\ users' = [users EXCEPT ![nextUid] =
                                   NewUser(req[r].email, req[r].password, clock)]
                   /\ nextUid' = nextUid + 1
                   /\ failedSince' = [failedSince EXCEPT ![nextUid] = 0]
                   /\ Finish(r, Response(201, "REGISTRATION_SUCCESS") @@
                                 [userId |-> nextUid] @@ seen)
    /\ UNCHANGED <<sessions, nextToken, clock, advances, loginBucket,
                   registerBucket, budget, mate>>

(***************************************************************************)
(* The environment: time passes, and a store call can fail.                *)
(***************************************************************************)
Deltas == {LOCKOUT_DURATION, SessionTtl(FALSE), SessionTtl(TRUE)}

Tick(d) ==
    /\ advances < MaxAdvance
    /\ clock' = clock + d
    /\ advances' = advances + 1
    /\ UNCHANGED <<users, sessions, nextUid, nextToken, loginBucket,
                   registerBucket, req, resp, failedSince, budget, mate>>

\* Any pending store call can throw; the handler's catch answers 500, and
\* the logout handler answers 200 and clears the cookie.  A transaction that
\* has not committed is aborted: nothing it staged is applied.
\* A failure that every handler, logout included, answers with 500.
StoreFails_Always500(r) ==
    /\ Busy(r)
    /\ Finish(r, Response(500, "INTERNAL_ERROR"))
    /\ UNCHANGED <<users, sessions, nextUid, nextToken, clock, advances,
                   loginBucket, registerBucket, failedSince, budget, mate>>
StoreFails(r) ==
    /\ Busy(r)
    /\ IF req[r].op = "logout"
       THEN Finish(r, Response(200, "LOGOUT_WARNING") @@
                      [cookie |-> NoToken, maxAge |-> 0])
       ELSE Finish(r, Response(500, "INTERNAL_ERROR"))
    /\ UNCHANGED <<users, sessions, nextUid, nextToken, clock, advances,
                   loginBucket, registerBucket, failedSince, budget, mate>>

(***************************************************************************)
(* POST /api/logout                                                        *)
(***************************************************************************)
ForgedToken == MaxTokens + 1
\* The cookie values a client can present: none, one it was given, a guess.
Cookies == {NoToken, ForgedToken} \cup {t \in Tokens : t < nextToken}

LoggedOut == Response(200, "LOGOUT_SUCCESS") @@ [cookie |-> NoToken, maxAge |-> 0]

LogoutStart(r, token) ==
    /\ Begin(r)
    /\ token \in Cookies
    /\ IF token = NoToken
       THEN /\ req' = [req EXCEPT ![r] = [pc |-> "done", op |-> "logout"]]
            /\ resp' = [resp EXCEPT ![r] = LoggedOut]
       ELSE /\ req' = [req EXCEPT ![r] =
                     [pc |-> "logout_find", op |-> "logout", token |-> token]]
            /\ resp' = [resp EXCEPT ![r] = NoResp]
    /\ UNCHANGED <<users, sessions, nextUid, nextToken, clock, advances,
                   loginBucket, registerBucket, failedSince>>

\* sessions.findOne({ token })
LogoutFind(r) ==
    /\ req[r].pc = "logout_find"
    /\ IF FindSession(req[r].token) = {}
       THEN Finish(r, LoggedOut)
       ELSE /\ req' = [req EXCEPT ![r] = [@ EXCEPT !.pc = "logout_delete"]]
            /\ resp' = resp
    /\ UNCHANGED <<users, sessions, nextUid, nextToken, clock, advances,
                   loginBucket, registerBucket, failedSince, budget, mate>>

\* sessions.deleteOne({ token })
LogoutDelete(r) ==
    /\ req[r].pc = "logout_delete"
    /\ sessions' = sessions \ FindSession(req[r].token)
    /\ Finish(r, LoggedOut)
    /\ UNCHANGED <<users, nextUid, nextToken, clock, advances, loginBucket,
                   registerBucket, failedSince, budget, mate>>

(***************************************************************************)
(* DELETE /api/logout: log out of all devices                              *)
(***************************************************************************)
LogoutAllStart(r, token) ==
    /\ Begin(r)
    /\ token \in Cookies
    /\ IF token = NoToken
       THEN /\ req' = [req EXCEPT ![r] = [pc |-> "done", op |-> "logoutAll"]]
            /\ resp' = [resp EXCEPT ![r] = Response(400, "NO_SESSION")]
       ELSE /\ req' = [req EXCEPT ![r] =
                     [pc |-> "logoutAll_find", op |-> "logoutAll", token |-> token]]
            /\ resp' = [resp EXCEPT ![r] = NoResp]
    /\ UNCHANGED <<users, sessions, nextUid, nextToken, clock, advances,
                   loginBucket, registerBucket, failedSince>>

\* The lookup of the current session: sessions.findOne({ token }).
CurrentSession(token) == FindSession(token)

LogoutAllFind(r) ==
    /\ req[r].pc = "logoutAll_find"
    /\ LET found == CurrentSession(req[r].token)
       IN  IF found = {}
           THEN Finish(r, Response(401, "INVALID_SESSION"))
           ELSE /\ req' = [req EXCEPT ![r] =
                         [@ EXCEPT !.pc = "logoutAll_delete"] @@
                         [userId |-> (CHOOSE s \in found : TRUE).userId]]
                /\ resp' = resp
    /\ UNCHANGED <<users, sessions, nextUid, nextToken, clock, advances,
                   loginBucket, registerBucket, failedSince, budget, mate>>

\* A filter that selects the sessions of every user.
SessionsOf_Everyone(uid) == sessions
\* The sessions of a user that have not expired.
SessionsOf_Valid(uid) == {s \in sessions : s.userId = uid /\ s.expiresAt > clock}
SessionsOf(uid) == {s \in sessions : s.userId = uid}

\* sessions.deleteMany({ userId })
LogoutAllDelete(r) ==
    /\ req[r].pc = "logoutAll_delete"
    /\ sessions' = sessions \ SessionsOf(req[r].userId)
    /\ Finish(r, Response(200, "LOGOUT_ALL_SUCCESS") @@
                  [sessionsDeleted |-> Cardinality(SessionsOf(req[r].userId)),
                   cookie |-> NoToken, maxAge |-> 0])
    /\ UNCHANGED <<users, nextUid, nextToken, clock, advances, loginBucket,
                   registerBucket, failedSince, budget, mate>>

(***************************************************************************)
(* /api/profile: getUserFromSession, shared by GET, PATCH and DELETE.      *)
(* An optional field of a body is a set with at most one element.          *)
(***************************************************************************)
The(S) == CHOOSE x \in S : TRUE

\* users.findOne({ _id }, { projection: { password: 0 } })
Projected(doc) ==
    IF doc = NoUser THEN NoUser ELSE [f \in DOMAIN doc \ {"password"} |-> doc[f]]

ProfileStart(r, op, token, body) ==
    /\ Begin(r)
    /\ token \in Cookies
    /\ IF token = NoToken
       THEN /\ req' = [req EXCEPT ![r] = [pc |-> "done", op |-> op]]
            /\ resp' = [resp EXCEPT ![r] = Response(401, "NOT_AUTHENTICATED")]
       ELSE /\ req' = [req EXCEPT ![r] =
                     [pc |-> "auth_session", op |-> op, token |-> token,
                      body |-> body]]
            /\ resp' = [resp EXCEPT ![r] = NoResp]
    /\ UNCHANGED <<users, sessions, nextUid, nextToken, clock, advances,
                   loginBucket, registerBucket, failedSince>>

\* A validation that renews the session it finds for another day.
AuthFindSession_Sliding(r) ==
    /\ req[r].pc = "auth_session"
    /\ LET found == FindValidSession(req[r].token, clock)
       IN  IF found = {}
           THEN /\ Finish(r, Response(401, "INVALID_SESSION"))
                /\ sessions' = sessions
           ELSE /\ req' = [req EXCEPT ![r] =
                         [@ EXCEPT !.pc = "auth_user"] @@
                         [uid |-> The(found).userId]]
                /\ resp' = resp
                /\ sessions' = (sessions \ found) \cup
                       {[s EXCEPT !.expiresAt = clock + 24 * 60 * 60] : s \in found}
    /\ UNCHANGED <<users, nextUid, nextToken, clock, advances,
                   loginBucket, registerBucket, failedSince, budget, mate>>

\* sessions.findOne({ token, expiresAt: { $gt: new Date() } })
AuthFindSession(r) ==
    /\ req[r].pc = "auth_session"
    /\ LET found == FindValidSession(req[r].token, clock)
       IN  IF found = {}
           THEN Finish(r, Response(401, "INVALID_SESSION"))
           ELSE /\ req' = [req EXCEPT ![r] =
                         [@ EXCEPT !.pc = "auth_user"] @@
                         [uid |-> The(found).userId]]
                /\ resp' = resp
    /\ UNCHANGED <<users, sessions, nextUid, nextToken, clock, advances,
                   loginBucket, registerBucket, failedSince, budget, mate>>

(***************************************************************************)
(* GET /api/profile                                                        *)
(***************************************************************************)
\* users.findOne of getUserFromSession, then the response; reading a field
\* of a user that is null throws, and the catch answers 500.
GetProfile(r) ==
    /\ req[r].pc = "auth_user"
    /\ req[r].op = "get"
    /\ IF users[req[r].uid] = NoUser
       THEN Finish(r, Response(500, "INTERNAL_ERROR"))
       ELSE Finish(r, Response(200, "PROFILE_RETRIEVED") @@ [uid |-> req[r].uid])
    /\ UNCHANGED <<users, sessions, nextUid, nextToken, clock, advances,
                   loginBucket, registerBucket, failedSince, budget, mate>>

(***************************************************************************)
(* PATCH /api/profile                                                      *)
(***************************************************************************)
NameOK(n) == n \in {"Alice", "Bob"}
UpdateSchemaOK(body) ==
    /\ \A n \in body.name : NameOK(n)
    /\ \A p \in body.newPassword : RegisterPasswordOK(p)

\* A preference update that replaces the stored preferences.
MergePreferences_Replace(old, patch) == patch

\* { ...user.preferences, ...preferences }
MergePreferences(old, patch) ==
    [k \in DOMAIN old \cup DOMAIN patch |->
        IF k \in DOMAIN patch THEN patch[k] ELSE old[k]]

\* users.findOne of getUserFromSession, then everything up to the next
\* store call: the body, updateData, and the checks of a password change.
PatchFindUser(r) ==
    /\ req[r].pc = "auth_user"
    /\ req[r].op = "patch"
    /\ LET user == Projected(users[req[r].uid])
           body == req[r].body
       IN  IF ~body.wellFormed
           THEN Finish(r, Response(400, "INVALID_JSON"))
           ELSE IF ~UpdateSchemaOK(body)
           THEN Finish(r, Response(400, "VALIDATION_ERROR"))
           ELSE IF body.preferences # {} /\ user = NoUser
           THEN Finish(r, Response(500, "INTERNAL_ERROR"))
           ELSE IF body.newPassword # {} /\ body.currentPassword \in {{}, {PwEmpty}}
           THEN Finish(r, Response(400, "CURRENT_PASSWORD_REQUIRED"))
           ELSE IF user = NoUser
           THEN Finish(r, Response(500, "INTERNAL_ERROR"))
           ELSE /\ req' = [req EXCEPT ![r] =
                         [pc |-> IF body.newPassword # {} THEN "patch_verify"
                                 ELSE "patch_update",
                          op |-> "patch", token |-> req[r].token,
                          uid |-> req[r].uid, body |-> body,
                          updatedAt |-> clock,
                          name |-> body.name,
                          preferences |->
                              {MergePreferences(user.preferences, p) :
                                   p \in body.preferences},
                          password |-> {}]]
                /\ resp' = resp
    /\ UNCHANGED <<users, sessions, nextUid, nextToken, clock, advances,
                   loginBucket, registerBucket, failedSince, budget, mate>>

\* A password change that does not compare the current password.
PatchVerify_Unchecked(r) ==
    /\ req[r].pc = "patch_verify"
    /\ req' = [req EXCEPT ![r] =
             [@ EXCEPT !.pc = "patch_revoke",
                       !.password = {Hash(The(req[r].body.newPassword))}]]
    /\ UNCHANGED <<users, sessions, nextUid, nextToken, clock, advances,
                   loginBucket, registerBucket, resp, failedSince, budget, mate>>

\* users.findOne({ _id }), bcrypt.compare(currentPassword), bcrypt.hash
PatchVerify(r) ==
    /\ req[r].pc = "patch_verify"
    /\ LET userWithPassword == users[req[r].uid]
       IN  IF userWithPassword = NoUser
           THEN Finish(r, Response(404, "USER_NOT_FOUND"))
           ELSE IF ~Compare(The(req[r].body.currentPassword), userWithPassword.password)
           THEN Finish(r, Response(400, "INVALID_CURRENT_PASSWORD"))
           ELSE /\ req' = [req EXCEPT ![r] =
                         [@ EXCEPT !.pc = "patch_revoke",
                                   !.password = {Hash(The(req[r].body.newPassword))}]]
                /\ resp' = resp
    /\ UNCHANGED <<users, sessions, nextUid, nextToken, clock, advances,
                   loginBucket, registerBucket, failedSince, budget, mate>>

\* The filter of the deleteMany: { userId, token: { $ne: sessionToken } }.
\* A filter that also selects the session making the request.
OtherSessions_All(uid, token) == {s \in sessions : s.userId = uid}
OtherSessions(uid, token) == {s \in sessions : s.userId = uid /\ s.token # token}

\* sessions.deleteMany: invalidate all other sessions
PatchRevokeOthers(r) ==
    /\ req[r].pc = "patch_revoke"
    /\ sessions' = sessions \ OtherSessions(req[r].uid, req[r].token)
    /\ req' = [req EXCEPT ![r] = [@ EXCEPT !.pc = "patch_update"]]
    /\ UNCHANGED <<users, nextUid, nextToken, clock, advances, loginBucket,
                   registerBucket, resp, failedSince, budget, mate>>

\* $set: updateData
ApplyUpdateData(doc, upd) ==
    [doc EXCEPT !.updatedAt = upd.updatedAt,
                !.name = IF upd.name = {} THEN @ ELSE The(upd.name),
                !.preferences = IF upd.preferences = {} THEN @
                                ELSE The(upd.preferences),
                !.password = IF upd.password = {} THEN @ ELSE The(upd.password)]

\* users.updateOne({ _id }, { $set: updateData }), matchedCount
PatchUpdate(r) ==
    /\ req[r].pc = "patch_update"
    /\ IF users[req[r].uid] = NoUser
       THEN /\ Finish(r, Response(404, "USER_NOT_FOUND"))
            /\ users' = users
       ELSE /\ users' = [users EXCEPT ![req[r].uid] = ApplyUpdateData(@, req[r])]
            /\ req' = [req EXCEPT ![r] =
                     [pc |-> "patch_reload", op |-> "patch", uid |-> req[r].uid,
                      token |-> req[r].token,
                      changedPassword |-> req[r].password # {}]]
            /\ resp' = resp
    /\ UNCHANGED <<sessions, nextUid, nextToken, clock, advances, loginBucket,
                   registerBucket, failedSince, budget, mate>>

\* users.findOne({ _id }) of the updated user, then the response
PatchReload(r) ==
    /\ req[r].pc = "patch_reload"
    /\ IF users[req[r].uid] = NoUser
       THEN Finish(r, Response(500, "INTERNAL_ERROR"))
       ELSE Finish(r, Response(200, "PROFILE_UPDATED") @@
                      [uid |-> req[r].uid, token |-> req[r].token,
                       changedPassword |-> req[r].changedPassword])
    /\ UNCHANGED <<users, sessions, nextUid, nextToken, clock, advances,
                   loginBucket, registerBucket, failedSince, budget, mate>>

(***************************************************************************)
(* DELETE /api/profile                                                     *)
(***************************************************************************)
\* users.findOne of getUserFromSession, the body, the confirmation check
DeleteFindUser(r) ==
    /\ req[r].pc = "auth_user"
    /\ req[r].op = "delete"
    /\ LET user == Projected(users[req[r].uid])
           body == req[r].body
       IN  IF ~body.wellFormed
           THEN Finish(r, Response(400, "INVALID_JSON"))
           ELSE IF body.password \in {{}, {PwEmpty}}
           THEN Finish(r, Response(400, "PASSWORD_REQUIRED"))
           ELSE IF user = NoUser
           THEN Finish(r, Response(500, "INTERNAL_ERROR"))
           ELSE /\ req' = [req EXCEPT ![r] = [@ EXCEPT !.pc = "delete_verify"]]
                /\ resp' = resp
    /\ UNCHANGED <<users, sessions, nextUid, nextToken, clock, advances,
                   loginBucket, registerBucket, failedSince, budget, mate>>

\* A deletion that does not compare the confirmation password.
DeleteVerify_Unchecked(r) ==
    /\ req[r].pc = "delete_verify"
    /\ req' = [req EXCEPT ![r] =
             [pc |-> "delete_txn_sessions", op |-> "delete", uid |-> req[r].uid]]
    /\ UNCHANGED <<users, sessions, nextUid, nextToken, clock, advances,
                   loginBucket, registerBucket, resp, failedSince, budget, mate>>

\* users.findOne({ _id }), bcrypt.compare(confirmPassword), startSession
DeleteVerify(r) ==
    /\ req[r].pc = "delete_verify"
    /\ LET userWithPassword == users[req[r].uid]
       IN  IF userWithPassword = NoUser
           THEN Finish(r, Response(404, "USER_NOT_FOUND"))
           ELSE IF ~Compare(The(req[r].body.password), userWithPassword.password)
           THEN Finish(r, Response(400, "INVALID_PASSWORD"))
           ELSE /\ req' = [req EXCEPT ![r] =
                         [pc |-> "delete_txn_sessions", op |-> "delete",
                          uid |-> req[r].uid]]
                /\ resp' = resp
    /\ UNCHANGED <<users, sessions, nextUid, nextToken, clock, advances,
                   loginBucket, registerBucket, failedSince, budget, mate>>

\* Inside withTransaction: sessions.deleteMany({ userId }, { session }).
\* The deletion is staged in the transaction; other requests do not see it.
DeleteTxnSessions(r) ==
    /\ req[r].pc = "delete_txn_sessions"
    /\ req' = [req EXCEPT ![r] =
             [@ EXCEPT !.pc = "delete_txn_user"] @@
             [staged |-> SessionsOf(req[r].uid)]]
    /\ UNCHANGED <<users, sessions, nextUid, nextToken, clock, advances,
                   loginBucket, registerBucket, resp, failedSince, budget, mate>>

\* What the commit of the transaction writes: both deletions at once.
CommitSessions(staged) == sessions \ staged
CommitUsers(uid) == [users EXCEPT ![uid] = NoUser]

\* Inside withTransaction: users.deleteOne({ _id }, { session }), then the
\* commit, endSession and the response that clears the cookie.
DeleteTxnUser(r) ==
    /\ req[r].pc = "delete_txn_user"
    /\ sessions' = CommitSessions(req[r].staged)
    /\ users' = CommitUsers(req[r].uid)
    /\ Finish(r, Response(200, "ACCOUNT_DELETED") @@
                  [uid |-> req[r].uid, cookie |-> NoToken, maxAge |-> 0])
    /\ UNCHANGED <<nextUid, nextToken, clock, advances, loginBucket,
                   registerBucket, failedSince, budget, mate>>

(***************************************************************************)
(* Specifications.  Each one is the handlers it names, run by the request  *)
(* slots of Procs (interleaved at every store call) or by the single slot  *)
(* of SeqProcs (one request after another), from a store that earlier      *)
(* registrations have filled.                                              *)
(***************************************************************************)
Alice == NewUser("a@b.com", PwGood, 0)
Carol == NewUser("c@d.com", PwOther, 0)

ClientIP == "10.0.0.1"

Bodies(emails, passwords) ==
    {[wellFormed |-> wf, email |-> e, password |-> p] :
        wf \in BOOLEAN, e \in emails, p \in passwords}

LoginSteps(r, ips, bodies) ==
    \/ \E ip \in ips, b \in bodies, rm \in BOOLEAN :
          LoginStart(r, ip, b.wellFormed, b.email, b.password, rm)
    \/ LoginFindUser(r)
    \/ LoginRecordFailure(r)
    \/ LoginRecordSuccess(r)
    \/ LoginCreateSession(r)

\* Lockout: one registered account, logins against it and against an
\* unknown email, and the clock moving by the lockout duration.
InitLock ==
    /\ users = [u \in UserIds |-> IF u = 1 THEN Alice ELSE NoUser]
    /\ sessions = {}
    /\ nextUid = 2
    /\ nextToken = 1
    /\ clock = 0
    /\ advances = 0
    /\ loginBucket = [i \in IPs |-> FreshBucket]
    /\ registerBucket = [i \in IPs |-> FreshBucket]
    /\ req = [r \in Procs |-> Idle]
    /\ resp = [r \in Procs |-> NoResp]
    /\ failedSince = [u \in UserIds |-> 0]
    /\ mate = [r \in Procs |-> 0]
    /\ budget = Unlimited

LockStep(r) ==
    LoginSteps(r, {ClientIP},
               Bodies({"a@b.com", "nobody@d.com"}, {PwGood, PwOther, PwEmpty}))

LockSeqNext == (\E r \in SeqProcs : LockStep(r)) \/ Tick(LOCKOUT_DURATION)

LockSeqSpec == InitLock /\ [][LockSeqNext]_vars

\* Races on the lockout counter: the account as n earlier failed logins
\* (one lockout duration ago) left it, and at most MaxRace logins by
\* concurrent requests.
RECURSIVE AfterFailures(_)
AfterFailures(n) ==
    IF n = 0 THEN Alice
    ELSE FailedUpdate(AfterFailures(n - 1), AfterFailures(n - 1), 0)

InitRace ==
    /\ \E n \in 0..MAX_LOGIN_ATTEMPTS :
          /\ users = [u \in UserIds |-> IF u = 1 THEN AfterFailures(n) ELSE NoUser]
          /\ failedSince = [u \in UserIds |-> IF u = 1 THEN n ELSE 0]
    /\ sessions = {}
    /\ nextUid = 2
    /\ nextToken = 1
    /\ clock = LOCKOUT_DURATION
    /\ advances = 0
    /\ loginBucket = [i \in IPs |-> FreshBucket]
    /\ registerBucket = [i \in IPs |-> FreshBucket]
    /\ req = [r \in Procs |-> Idle]
    /\ resp = [r \in Procs |-> NoResp]
    /\ mate = [r \in Procs |-> 0]
    /\ budget = MaxRace

RaceStep(r) ==
    \/ \E p \in {PwGood, PwOther}, rm \in BOOLEAN :
          LoginStart(r, ClientIP, TRUE, "a@b.com", p, rm)
    \/ LoginFindUser(r)
    \/ LoginRecordFailure(r)
    \/ LoginRecordSuccess(r)
    \/ LoginCreateSession(r)

RaceNext == \E r \in Procs : RaceStep(r)
RaceSpec == InitRace /\ [][RaceNext]_vars

(***************************************************************************)
(* Sessions: two registered accounts; logins, logouts and the profile      *)
(* handlers; the clock moving by the two session lifetimes.                *)
(***************************************************************************)
PatchBody(n, c, p, f) ==
    [wellFormed |-> TRUE, name |-> n, currentPassword |-> c, newPassword |-> p,
     preferences |-> f]
Dark == [theme |-> "dark"]
PatchBodies ==
    {PatchBody({"Bob"}, {}, {}, {}),
     PatchBody({}, {}, {}, {Dark}),
     PatchBody({"Bob"}, {}, {PwNew}, {}),
     PatchBody({}, {PwGood}, {PwNew}, {}),
     PatchBody({}, {PwOther}, {PwNew}, {Dark})}
Credentials ==
    {[wellFormed |-> TRUE, email |-> "a@b.com", password |-> PwGood],
     [wellFormed |-> TRUE, email |-> "c@d.com", password |-> PwOther],
     [wellFormed |-> TRUE, email |-> "a@b.com", password |-> PwNew]}
DeleteBodies ==
    {[wellFormed |-> TRUE, password |-> c] : c \in {{}, {PwGood}, {PwOther}}}
NoBody == [wellFormed |-> TRUE]

ProfileSteps(r) ==
    \/ \E t \in Cookies : ProfileStart(r, "get", t, NoBody)
    \/ \E t \in Cookies, b \in PatchBodies : ProfileStart(r, "patch", t, b)
    \/ \E t \in Cookies, b \in DeleteBodies : ProfileStart(r, "delete", t, b)
    \/ AuthFindSession(r)
    \/ GetProfile(r)
    \/ PatchFindUser(r)
    \/ PatchVerify(r)
    \/ PatchRevokeOthers(r)
    \/ PatchUpdate(r)
    \/ PatchReload(r)
    \/ DeleteFindUser(r)
    \/ DeleteVerify(r)
    \/ DeleteTxnSessions(r)
    \/ DeleteTxnUser(r)

LogoutSteps(r) ==
    \/ \E t \in Cookies : LogoutStart(r, t)
    \/ LogoutFind(r)
    \/ LogoutDelete(r)
    \/ \E t \in Cookies : LogoutAllStart(r, t)
    \/ LogoutAllFind(r)
    \/ LogoutAllDelete(r)

\* The session a login of user uid at time now inserts.
Issued(token, uid, now, rememberMe) ==
    [token |-> token, userId |-> uid, createdAt |-> now,
     expiresAt |-> now + SessionTtl(rememberMe),
     userAgent |-> UserAgent, ip |-> ClientIP, rememberMe |-> rememberMe]

\* Alice has logged in twice at time 0, once with rememberMe; Carol has not
\* logged in yet.
InitSess ==
    /\ users = [u \in UserIds |-> IF u = 1 THEN SuccessUpdate(Alice, 0)
                                  ELSE IF u = 2 THEN Carol ELSE NoUser]
    /\ sessions = {Issued(1, 1, 0, FALSE), Issued(2, 1, 0, TRUE)}
    /\ nextUid = 3
    /\ nextToken = 3
    /\ clock = 0
    /\ advances = 0
    /\ loginBucket = [i \in IPs |-> IF i = ClientIP
                                     THEN BucketAfter(BucketAfter(FreshBucket,
                                              LoginInterval, 0), LoginInterval, 0)
                                     ELSE FreshBucket]
    /\ registerBucket = [i \in IPs |-> FreshBucket]
    /\ req = [r \in Procs |-> Idle]
    /\ resp = [r \in Procs |-> NoResp]
    /\ failedSince = [u \in UserIds |-> 0]
    /\ mate = [r \in Procs |-> 0]
    /\ budget = MaxSeq

SessStep(r) ==
    \/ LoginSteps(r, {ClientIP}, Credentials)
    \/ LogoutSteps(r)
    \/ ProfileSteps(r)
    \/ StoreFails(r)

\* One request after another, with time passing between requests.
SessSeqNext ==
    \/ \E r \in SeqProcs : SessStep(r)
    \/ /\ \A r \in Procs : ~Busy(r)
       /\ \E rm \in BOOLEAN : Tick(SessionTtl(rm))
SessSeqSpec == InitSess /\ [][SessSeqNext]_vars

\* Concurrent requests, interleaved at every store call.
SessNext == \E r \in Procs : SessStep(r)
SessSpec == InitSess /\ [][SessNext]_vars

(***************************************************************************)
(* Lockout counter, one request after another (LockSeqSpec).               *)
(***************************************************************************)
HasField(rec, f) == f \in DOMAIN rec
NotLocked(doc) == doc.lockUntil \in {Null, Absent}

\* C1: starting from a cleared counter, after N < 5 wrong-password logins
\* executed one after another (failedSince counts the 401 answers since the
\* counter was last cleared) the stored counter is N and no lock is set.
C1_CounterBelowThreshold ==
    \A u \in UserIds :
        (users[u] # NoUser /\ failedSince[u] < 5) =>
            /\ AttemptsOf(users[u]) = failedSince[u]
            /\ NotLocked(users[u])

\* Four wrong passwords after a successful login: counter 4, no lock.
C1_Witness ==
    /\ users[1] # NoUser
    /\ users[1].lastLogin # Null
    /\ failedSince[1] = 4
    /\ users[1].loginAttempts = 4
    /\ \A r \in Procs : ~Busy(r)

\* The step in which request r records a failed verification.
RecordsFailure(r) ==
    /\ req[r].pc = "login_fail"
    /\ req'[r].pc = "done"
    /\ resp'[r].code = "INVALID_CREDENTIALS"
    /\ users[req[r].uid] # NoUser

\* C2: the failed login whose update stores the counter value 5 stores
\* lockUntil = (time of the attempt) + 30 minutes in that same update, and a
\* failed login that stores a counter below 5 leaves lockUntil as it was.
C2_LockSetAtFive ==
    [][\A r \in Procs :
          RecordsFailure(r) =>
              LET uid == req[r].uid
              IN  /\ users'[uid].loginAttempts = AttemptsOf(req[r].user) + 1
                  /\ (users'[uid].loginAttempts = 5 =>
                         users'[uid].lockUntil = req[r].now + 30 * 60)
                  /\ (users'[uid].loginAttempts < 5 =>
                         users'[uid].lockUntil = users[uid].lockUntil)]_vars

\* The fifth failure has just been answered and the account is locked for
\* 30 minutes from the attempt.
C2_Witness ==
    \E r \in Procs :
        /\ resp[r].code = "INVALID_CREDENTIALS"
        /\ HasField(resp[r], "locked") /\ resp[r].locked
        /\ users[1].loginAttempts = 5
        /\ users[1].lockUntil = users[1].updatedAt + 30 * 60
        /\ users[1].lockUntil > clock

\* Request r looks up an account that is locked at the present time.
ReadsLockedAccount(r) ==
    /\ req[r].pc = "login_find"
    /\ req'[r] # req[r]
    /\ FindUserByEmail(req[r].email) # 0
    /\ LET doc == users[FindUserByEmail(req[r].email)]
       IN  doc.lockUntil >= 0 /\ clock < doc.lockUntil

\* C3: a login that looks up an account while its lock has not run out is
\* answered 423 ACCOUNT_LOCKED whatever its password; it goes on to no
\* verification, changes no user record and inserts no session.
C3_LockedRejects ==
    [][\A r \in Procs :
          ReadsLockedAccount(r) =>
              /\ req'[r].pc = "done"
              /\ resp'[r].status = 423
              /\ resp'[r].code = "ACCOUNT_LOCKED"
              /\ users' = users
              /\ sessions' = sessions]_vars

\* A login against the locked account has been answered 423 while the
\* lock is running.
C3_Witness ==
    \E r \in Procs :
        /\ resp[r].code = "ACCOUNT_LOCKED"
        /\ users[1].loginAttempts = 5
        /\ users[1].lockUntil > clock
        /\ sessions = {}

(***************************************************************************)
(* Lockout counter under concurrent logins (RaceSpec).                     *)
(***************************************************************************)
\* The step in which request r completes a successful login.
CompletesLogin(r) ==
    /\ req[r].pc = "login_session"
    /\ resp'[r].code = "LOGIN_SUCCESS"

Cleared(doc) == AttemptsOf(doc) = 0 /\ doc.lockUntil = Absent

\* C4: when a login completes successfully the account's counter is 0 and
\* its lock is absent, also when other logins for the account were in
\* flight at the same time.
C4_ClearedAtCompletion ==
    [][\A r \in Procs :
          (CompletesLogin(r) /\ users'[req[r].uid] # NoUser) =>
              Cleared(users'[req[r].uid])]_vars

\* Requests r1 and r2 both failed verification against the counter value 4,
\* both read it before either wrote, and both have been answered.
RacedAtFour(r1, r2) ==
    /\ r1 # r2
    /\ mate[r1] = r2 /\ mate[r2] = r1
    /\ req[r1].pc = "done" /\ req[r2].pc = "done"
    /\ resp[r1].code = "INVALID_CREDENTIALS" /\ resp[r2].code = "INVALID_CREDENTIALS"
    /\ HasField(resp[r1], "read") /\ HasField(resp[r2], "read")
    /\ resp[r1].read = 4 /\ resp[r2].read = 4

\* C5: of two concurrent wrong-password logins that both read the counter
\* at 4, exactly one is told the account is now locked, and the stored
\* counter ends at 6.
C5_NoLostIncrement ==
    \A r1, r2 \in Procs :
        RacedAtFour(r1, r2) =>
            /\ resp[r1].locked # resp[r2].locked
            /\ AttemptsOf(users[1]) = 6

(***************************************************************************)
(* Sessions, one request after another (SessSeqSpec).                      *)
(***************************************************************************)
\* The lifetime a session was asked for, in seconds.
Lifetime(s) == IF s.rememberMe THEN 30 * 24 * 60 * 60 ELSE 24 * 60 * 60

\* C6: the token of every stored (not revoked) session, presented to the
\* session lookup of the profile handlers, resolves to that session at every
\* time from its issue up to issue + ttl, and to nothing from issue + ttl
\* on; and a completed login has stored the session under the token it
\* returns, for the user it verified, issued at the time of the attempt.
C6_RoundTrip ==
    /\ [](\A s \in sessions :
            /\ (s.createdAt <= clock /\ clock < s.createdAt + Lifetime(s)) =>
                   FindValidSession(s.token, clock) = {s}
            /\ clock >= s.createdAt + Lifetime(s) =>
                   FindValidSession(s.token, clock) = {})
    /\ [][\A r \in Procs :
             CompletesLogin(r) =>
                 \E s \in sessions' :
                     /\ s.token = resp'[r].cookie
                     /\ s.userId = FindUserByEmail(req[r].email)
                     /\ s.createdAt = req[r].now
                     /\ s.rememberMe = req[r].rememberMe]_vars

\* The session of a login made in this run has outlived its lifetime and
\* no longer resolves.
C6_Witness ==
    \E s \in sessions :
        /\ s.token = 3
        /\ clock >= s.createdAt + Lifetime(s)
        /\ FindValidSession(s.token, clock) = {}

\* The step in which request r completes a password change.
CompletesPasswordChange(r) ==
    /\ req[r].pc = "patch_reload"
    /\ req[r].changedPassword
    /\ resp'[r].code = "PROFILE_UPDATED"

\* The sessions that are not owned by uid.
SessionsOfOthers(set, uid) == {s \in set : s.userId # uid}

\* C7: when a password change made with token A completes, A's session is
\* stored and valid, no other session of that user is stored, and no step of
\* the request has changed a session of another user.
C7_SiblingsRevoked ==
    [][\A r \in Procs :
          /\ CompletesPasswordChange(r) =>
                 /\ \E s \in sessions' :
                        /\ s.token = req[r].token
                        /\ s.userId = req[r].uid
                        /\ s.expiresAt > clock'
                 /\ \A s \in sessions' :
                        s.userId = req[r].uid => s.token = req[r].token
          /\ (Busy(r) /\ req[r].op = "patch" /\ req[r].pc # "auth_session") =>
                 SessionsOfOthers(sessions', req[r].uid) =
                     SessionsOfOthers(sessions, req[r].uid)]_vars

\* Alice changed her password with one of her two valid sessions while
\* Carol was logged in: Alice keeps that one session, Carol keeps hers.
C7_Witness ==
    \E r \in Procs :
        /\ resp[r].code = "PROFILE_UPDATED"
        /\ resp[r].changedPassword
        /\ clock = 0
        /\ Cardinality(SessionsOf(1)) = 1
        /\ \A s \in SessionsOf(1) : s.token = resp[r].token
        /\ SessionsOf(2) # {}

\* C8: in every state no stored session points at a missing user, and every
\* step of an account deletion either leaves the users and the sessions as
\* they are (also when the transaction fails between its two deletions) or
\* removes the user record and all the user's sessions at once, after which
\* the email resolves to no user.
C8_DeletionAtomic ==
    /\ [](\A s \in sessions : users[s.userId] # NoUser)
    /\ [][\A r \in Procs :
             (Busy(r) /\ req[r].op = "delete" /\ req'[r] # req[r]) =>
                 \/ users' = users /\ sessions' = sessions
                 \/ /\ resp'[r].code = "ACCOUNT_DELETED"
                    /\ users'[req[r].uid] = NoUser
                    /\ \A s \in sessions' : s.userId # req[r].uid
                    /\ \A u \in UserIds :
                           users'[u] # NoUser => users'[u].email # users[req[r].uid].email
                    /\ \A u \in UserIds \ {req[r].uid} : users'[u] = users[u]
                    /\ SessionsOfOthers(sessions', req[r].uid) =
                           SessionsOfOthers(sessions, req[r].uid)]_vars

\* C10: a log-out-of-all-devices whose token resolves to no valid session
\* (no cookie, an unknown token, or an expired session) is answered with a
\* client error and removes no session.
C10_UnresolvedTokenRevokesNothing ==
    [][\A r \in Procs :
          /\ (~Busy(r) /\ req'[r] # req[r] /\ req'[r].pc = "done"
                 /\ req'[r].op = "logoutAll") =>
                 (resp'[r].status = 400 /\ sessions' = sessions)
          /\ (Busy(r) /\ req[r].op = "logoutAll" /\ req'[r] # req[r]
                 /\ resp'[r].code # "INTERNAL_ERROR"
                 /\ FindValidSession(req[r].token, clock) = {}) =>
                 /\ req'[r].pc = "done"
                 /\ resp'[r].status \in {400, 401}
                 /\ sessions' = sessions]_vars

(***************************************************************************)
(* Sessions under concurrent requests (SessSpec).                          *)
(***************************************************************************)
\* C9: the owner of every stored session exists in the users collection.
C9_NoSessionOfDeletedUser ==
    \A s \in sessions : users[s.userId] # NoUser

(***************************************************************************)
(* Logout (SessSeqSpec).                                                   *)
(***************************************************************************)
\* Request r, a logout, takes a step after its start.
LogoutStepOf(r) == Busy(r) /\ req[r].op = "logout" /\ req'[r] # req[r]

\* C11: a logout without a cookie is answered LOGOUT_SUCCESS and changes
\* nothing; every step of a logout leaves the users alone and removes no
\* session but the one of the presented token; a logout always ends with
\* status 200; when it ends with LOGOUT_SUCCESS no session with the
\* presented token is stored; and a logout of a token that has no session
\* (unknown, or already logged out) leaves the store as it is.
C11_LogoutIdempotent ==
    [][\A r \in Procs :
          /\ (~Busy(r) /\ req'[r] # req[r] /\ req'[r].op = "logout") =>
                 /\ sessions' = sessions /\ users' = users
                 /\ req'[r].pc = "done" => resp'[r] = LoggedOut
          /\ LogoutStepOf(r) =>
                 /\ users' = users
                 /\ sessions' \subseteq sessions
                 /\ \A s \in sessions \ sessions' : s.token = req[r].token
                 /\ req'[r].pc = "done" => resp'[r].status = 200
                 /\ (req'[r].pc = "done" /\ resp'[r].code = "LOGOUT_SUCCESS") =>
                        /\ \A s \in sessions' : s.token # req[r].token
                        /\ resp'[r].cookie = NoToken /\ resp'[r].maxAge = 0
                 /\ (\A s \in sessions : s.token # req[r].token) =>
                        sessions' = sessions]_vars

\* A logout with the token of Alice's first session has been answered: that
\* session is gone and her other session is still stored.
C11_Witness ==
    \E r \in Procs :
        /\ req[r] = [pc |-> "done", op |-> "logout"]
        /\ resp[r] = LoggedOut
        /\ sessions = {Issued(2, 1, 0, TRUE)}

\* C12: however a logout ends, a failed store call included, its response
\* is not an error (status 200) and clears the session cookie: empty value
\* and maxAge 0.
C12_LogoutFailSoft ==
    [][\A r \in Procs :
          (LogoutStepOf(r) /\ req'[r].pc = "done") =>
              /\ resp'[r].status = 200
              /\ resp'[r].code \in {"LOGOUT_SUCCESS", "LOGOUT_WARNING"}
              /\ resp'[r].cookie = NoToken
              /\ resp'[r].maxAge = 0]_vars

\* A store call of a logout has failed: the logout was answered with the
\* warning, and the session it was to remove is still stored.
C12_Witness ==
    \E r \in Procs :
        /\ req[r] = [pc |-> "done", op |-> "logout"]
        /\ resp[r].code = "LOGOUT_WARNING"
        /\ resp[r].status = 200
        /\ sessions = {Issued(1, 1, 0, FALSE), Issued(2, 1, 0, TRUE)}

(***************************************************************************)
(* Rate limiting (LimitSpec): logins from two client addresses and         *)
(* registrations from one, stopping at the first store call, and the clock *)
(* moving by the two windows between requests.                             *)
(***************************************************************************)
LimitStep(r) ==
    \/ \E ip \in IPs : LoginStart(r, ip, TRUE, "nobody@d.com", PwOther, FALSE)
    \/ LoginFindUser(r)
    \/ RegisterStart(r, ClientIP, TRUE, "A@B.com", PwGood)
    \/ RegisterFindExisting(r)

LimitNext ==
    \/ \E r \in SeqProcs : LimitStep(r)
    \/ /\ \A r \in Procs : ~Busy(r)
       /\ \E d \in {LoginInterval, RegisterInterval} : Tick(d)
LimitSpec == InitLock /\ [][LimitNext]_vars

\* The request that moved bucket b to b2 was the next one of a running
\* window, rejected exactly if limit requests had been counted in it, or
\* the first of a new window, which is admitted.
Limited(b, b2, limit, interval, rejected) ==
    IF b.count > 0 /\ clock < b.resetAt
    THEN /\ b2 = [count |-> b.count + 1, resetAt |-> b.resetAt]
         /\ rejected <=> b.count >= limit
    ELSE /\ b2 = [count |-> 1, resetAt |-> clock + interval]
         /\ ~rejected

\* The request of slot r has just been answered 429.
Rejected(r) ==
    /\ req'[r].pc = "done"
    /\ resp'[r] = Response(429, "RATE_LIMIT_EXCEEDED")

\* C13: for each client address, the first 10 logins of a 15 minute window
\* and the first 5 registrations of a 60 minute window pass the limiter,
\* every further one in the window is answered 429 RATE_LIMIT_EXCEEDED, and
\* the first request after the window has run out starts a new window and
\* passes; a request counts against its own address and operation only.
C13_WindowAdmitsLimit ==
    [][\A r \in SeqProcs, ip \in IPs :
          /\ loginBucket'[ip] # loginBucket[ip] =>
                 /\ req'[r].op = "login"
                 /\ Limited(loginBucket[ip], loginBucket'[ip], 10, 15 * 60,
                            Rejected(r))
                 /\ \A j \in IPs \ {ip} : loginBucket'[j] = loginBucket[j]
                 /\ registerBucket' = registerBucket
          /\ registerBucket'[ip] # registerBucket[ip] =>
                 /\ req'[r].op = "register"
                 /\ Limited(registerBucket[ip], registerBucket'[ip], 5, 60 * 60,
                            Rejected(r))
                 /\ \A j \in IPs \ {ip} : registerBucket'[j] = registerBucket[j]
                 /\ loginBucket' = loginBucket]_vars

\* In a second login window, opened after the first had run out, the
\* eleventh login has just been rejected, while the sixth registration of
\* the still running first registration window was rejected before.
C13_Witness ==
    /\ loginBucket[ClientIP].count = 11
    /\ loginBucket[ClientIP].resetAt = 2 * 15 * 60
    /\ resp[1] = Response(429, "RATE_LIMIT_EXCEEDED")
    /\ req[1].op = "login"
    /\ registerBucket[ClientIP].count = 6
    /\ clock < registerBucket[ClientIP].resetAt

(***************************************************************************)
(* Registration, one request after another (RegSeqSpec): an empty store,   *)
(* three emails of which two differ in letter case only, a password the    *)
(* schema accepts and one it rejects.                                      *)
(***************************************************************************)
RegisterSteps(r, emails, passwords) ==
    \/ \E wf \in BOOLEAN, e \in emails, p \in passwords :
          RegisterStart(r, ClientIP, wf, e, p)
    \/ RegisterFindExisting(r)
    \/ RegisterInsert(r)

RegSeqNext ==
    \/ \E r \in SeqProcs :
          RegisterSteps(r, {"a@b.com", "A@B.com", "c@d.com", "not-an-email"},
                        {PwGood, PwWeak})
    \/ /\ \A r \in Procs : ~Busy(r)
       /\ Tick(RegisterInterval)
RegSeqSpec == Init /\ [][RegSeqNext]_vars

\* Two emails that are equal up to letter case.
SameFolded(e1, e2) == e1 = e2 \/ {e1, e2} = {"a@b.com", "A@B.com"}

\* The stored users whose email equals e up to letter case.
UsersWithEmail(e) ==
    {u \in UserIds : users[u] # NoUser /\ SameFolded(users[u].email, e)}

RegRaceNext ==
    \E r \in Procs : RegisterSteps(r, {"a@b.com", "A@B.com"}, {PwGood})
RegRaceSpec == Init /\ [][RegRaceNext]_vars

\* Requests r1 and r2 registered the same normalised email, both passed
\* the existence check before either inserted, r1 inserted first, and both
\* have been answered.
RacedRegister(r1, r2) ==
    /\ r1 # r2
    /\ req[r1] = [pc |-> "done", op |-> "register"]
    /\ req[r2] = [pc |-> "done", op |-> "register"]
    /\ HasField(resp[r1], "existed") /\ HasField(resp[r2], "existed")
    /\ resp[r1].email = resp[r2].email
    /\ ~resp[r1].existed /\ resp[r2].existed

\* C15: of two registrations of the same normalised email that both passed
\* the existence check before either inserted, one succeeds, the other is
\* answered USER_EXISTS, and exactly one record with the email is stored.
C15_RaceReportsExists ==
    \A r1, r2 \in Procs :
        RacedRegister(r1, r2) =>
            /\ resp[r1].code = "REGISTRATION_SUCCESS"
            /\ resp[r2].code = "USER_EXISTS"
            /\ Cardinality(UsersWithEmail(resp[r1].email)) = 1

(***************************************************************************)
(* What a failed login tells the client (EnumSpec): wrong-password logins  *)
(* for a registered and for an unknown email, by two clients.              *)
(***************************************************************************)
EnumStep(r) ==
    \/ \E e \in {"a@b.com", "nobody@d.com"} :
          LoginStart(r, ClientIP, TRUE, e, PwOther, FALSE)
    \/ LoginFindUser(r)
    \/ LoginRecordFailure(r)

EnumNext == \E r \in Procs : EnumStep(r)
EnumSpec == InitLock /\ [][EnumNext]_vars

\* What the client sees of response rsp: the status, and the code, the
\* message and the names of the fields of the JSON body.
Seen(rsp) ==
    [status |-> rsp.status, code |-> rsp.code, message |-> rsp.message,
     fields |-> rsp.fields]

\* The response to a login for an email that has no user record.
ForUnknownEmail(r) ==
    /\ req[r] = [pc |-> "done", op |-> "login"]
    /\ resp[r].code = "INVALID_CREDENTIALS"
    /\ ~HasField(resp[r], "uid")

\* The response to a wrong-password login for an existing account that was
\* not locked and whose failure did not reach the lockout threshold.
ForWrongPassword(r) ==
    /\ req[r] = [pc |-> "done", op |-> "login"]
    /\ resp[r].code = "INVALID_CREDENTIALS"
    /\ HasField(resp[r], "uid")
    /\ ~resp[r].locked

\* C16: the response to a login for an unknown email and the response to a
\* wrong-password login below the lockout threshold have the same status,
\* code, message and set of body fields.
C16_NoEnumeration ==
    \A r1, r2 \in Procs :
        (ForUnknownEmail(r1) /\ ForWrongPassword(r2)) =>
            Seen(resp[r1]) = Seen(resp[r2])

(***************************************************************************)
(* Session lifetimes (SessSeqSpec).                                        *)
(***************************************************************************)
\* C17: the session that a completing login inserts lasts 30 days from its
\* creation if rememberMe was asked for and 24 hours otherwise, and the
\* maxAge of the cookie in the response is that same duration; every
\* stored session has one of these two lifetimes, according to its
\* rememberMe flag.
C17_LifetimeMatchesCookie ==
    /\ [](\A s \in sessions :
            s.expiresAt - s.createdAt =
                IF s.rememberMe THEN 30 * 24 * 60 * 60 ELSE 24 * 60 * 60)
    /\ [][\A r \in Procs :
             CompletesLogin(r) =>
                 LET d == IF req[r].rememberMe THEN 30 * 24 * 60 * 60
                          ELSE 24 * 60 * 60
                 IN  /\ resp'[r].maxAge = d
                     /\ \E s \in sessions' \ sessions :
                            /\ s.token = resp'[r].cookie
                            /\ s.rememberMe = req[r].rememberMe
                            /\ s.expiresAt - s.createdAt = d]_vars

\* A login with rememberMe, made a day after the first sessions were
\* issued, has been answered with a 30 day cookie for a 30 day session.
C17_Witness ==
    \E r \in Procs, s \in sessions :
        /\ resp[r].code = "LOGIN_SUCCESS"
        /\ resp[r].rememberMe
        /\ resp[r].maxAge = 30 * 24 * 60 * 60
        /\ s.token = resp[r].cookie
        /\ s.createdAt = 24 * 60 * 60
        /\ s.expiresAt = 31 * 24 * 60 * 60

(***************************************************************************)
(* The end of a lockout (LockFairSpec): logins one after another, each     *)
(* handler running on to its response once it has started.                 *)
(***************************************************************************)
LoginRuns(r) ==
    \/ LoginFindUser(r)
    \/ LoginRecordFailure(r)
    \/ LoginRecordSuccess(r)
    \/ LoginCreateSession(r)

LockFairSpec ==
    /\ InitLock
    /\ [][LockSeqNext]_vars
    /\ \A r \in SeqProcs : WF_vars(LoginRuns(r))

\* Request r, admitted by the limiter, is about to look up Alice's account
\* with her password, and the lock that five failures set has run out.
AfterLockout(r) ==
    /\ req[r].pc = "login_find"
    /\ req[r].email = "a@b.com"
    /\ req[r].password = PwGood
    /\ users[1].loginAttempts = 5
    /\ users[1].lockUntil >= 0
    /\ clock >= users[1].lockUntil

\* Request r has been answered with a successful login, the account's
\* counter and lock are cleared, and the session of the returned token is
\* stored, for 24 hours if rememberMe was not asked for.
LoggedInCleared(r) ==
    /\ req[r] = [pc |-> "done", op |-> "login"]
    /\ resp[r].status = 200 /\ resp[r].code = "LOGIN_SUCCESS"
    /\ AttemptsOf(users[1]) = 0 /\ users[1].lockUntil = Absent
    /\ \E s \in sessions :
           /\ s.token = resp[r].cookie
           /\ s.userId = 1
           /\ ~resp[r].rememberMe => s.expiresAt - s.createdAt = 24 * 60 * 60

\* C18: a correct-password login that reaches an account locked by five
\* failures at or after the time lockUntil goes on to succeed: it clears
\* the counter and the lock and issues a session, of 24 hours without
\* rememberMe.
C18_LockoutEnds ==
    \A r \in SeqProcs : AfterLockout(r) ~> LoggedInCleared(r)

\* Exactly when the lock ran out, a login with the correct password and
\* without rememberMe has succeeded.
C18_Witness ==
    \E r \in SeqProcs :
        /\ LoggedInCleared(r)
        /\ ~resp[r].rememberMe
        /\ resp[r].now = clock
        /\ clock = 30 * 60
        /\ advances = 1

(***************************************************************************)
(* The password policy on its own (PolicySpec): passwordSchema applied to  *)
(* candidates put together from a head, a word and a tail.                 *)
(***************************************************************************)
Pad(n) == [i \in 1..n |-> "x"]
Heads == {<<>>, <<"A">>, <<"#">>}
Words ==
    {<<>>,
     <<"p", "a", "s", "s", "w", "o", "r", "d">>,
     <<"P", "a", "s", "s", "W", "o", "r", "d">>,
     <<"P", "a", "s", "s", "w", "0", "r", "d">>,
     <<"l", "e", "t", "m", "e", "i", "n">>,
     <<"L", "E", "T", "M", "E", "I", "N">>,
     <<"q", "w", "e", "r", "t", "y", "1", "2", "3">>,
     <<"Q", "w", "E", "r", "T", "y", "1", "2", "3">>,
     <<"1", "2", "3", "4", "5", "6", "7", "8">>,
     <<"a", "d", "m", "i", "n", "1", "2", "3">>,
     <<"A", "d", "m", "i", "n", "1", "2", "3">>,
     <<"w", "e", "l", "c", "o", "m", "e", "1", "2", "3">>,
     <<"W", "e", "l", "c", "o", "m", "e", "1", "2">>,
     <<"A", "b", "c", "d", "e", "f", "1", "!">>,
     <<"A", "b", "c", "d", "e", "1", "!">>}
Tails ==
    {<<>>, <<"1", "!">>, <<"A", "7", "&">>, <<" ", "9", "?">>,
     <<"A", "1", "!">> \o Pad(128 - 11), <<"A", "1", "!">> \o Pad(128 - 10)}
Candidates == {h \o w \o t : h \in Heads, w \in Words, t \in Tails}

\* passwordSchema.safeParse(p), answered to the caller.
PasswordParse(r, p) ==
    /\ Begin(r)
    /\ req' = [req EXCEPT ![r] = [pc |-> "done", op |-> "policy"]]
    /\ resp' = [resp EXCEPT ![r] = NoResp @@ [input |-> p] @@ PasswordSafeParse(p)]
    /\ UNCHANGED <<users, sessions, nextUid, nextToken, clock, advances,
                   loginBucket, registerBucket, failedSince>>

PolicyNext == \E r \in SeqProcs, p \in Candidates : PasswordParse(r, p)
PolicySpec == Init /\ [][PolicyNext]_vars

\* Characters a and b are the same letter in either case, or the same
\* character.
SameIgnoringCase(a, b) ==
    \/ a = b
    \/ \E i \in DOMAIN LowerLetters : {a, b} = {LowerLetters[i], UpperLetters[i]}

\* Word w occurs in p at some position, letter case aside.
OccursIgnoringCase(p, w) ==
    \E k \in 0..(Len(p) - Len(w)) :
        \A j \in 1..Len(w) : SameIgnoringCase(p[k + j], w[j])

Parsed(r) == req[r] = [pc |-> "done", op |-> "policy"]

\* C19: the validator accepts a candidate exactly when its length is from
\* 8 to 128, it has a lowercase letter, an uppercase letter, a digit and
\* one of @$!%*?&, and no denylisted weak password occurs in it, letter
\* case aside.
C19_PolicyAccepts ==
    \A r \in Procs :
        Parsed(r) =>
            LET q == resp[r].input
            IN  resp[r].success <=>
                    /\ 8 <= Len(q) /\ Len(q) <= 128
                    /\ \E i \in DOMAIN q : q[i] \in LowerChars
                    /\ \E i \in DOMAIN q : q[i] \in UpperChars
                    /\ \E i \in DOMAIN q : q[i] \in DigitChars
                    /\ \E i \in DOMAIN q : q[i] \in SpecialChars
                    /\ \A w \in commonPasswords : ~OccursIgnoringCase(q, w)

\* A candidate that meets every other requirement is refused for holding a
\* denylisted word in capitals.
C19_Witness ==
    \E r \in Procs :
        /\ Parsed(r)
        /\ ~resp[r].success
        /\ resp[r].issues = {"Password contains common patterns and is not secure"}
        /\ ~Includes(resp[r].input, <<"l", "e", "t", "m", "e", "i", "n">>)
        /\ OccursIgnoringCase(resp[r].input, <<"l", "e", "t", "m", "e", "i", "n">>)

(***************************************************************************)
(* The handlers that take a password to store (PolicyUseSpec): Alice,      *)
(* registered and logged in once, changes her password, and a second user  *)
(* registers.                                                              *)
(***************************************************************************)
InitPolicyUse ==
    /\ users = [u \in UserIds |-> IF u = 1 THEN SuccessUpdate(Alice, 0) ELSE NoUser]
    /\ sessions = {Issued(1, 1, 0, FALSE)}
    /\ nextUid = 2
    /\ nextToken = 2
    /\ clock = 0
    /\ advances = 0
    /\ loginBucket = [i \in IPs |-> IF i = ClientIP
                                     THEN BucketAfter(FreshBucket, LoginInterval, 0)
                                     ELSE FreshBucket]
    /\ registerBucket = [i \in IPs |-> FreshBucket]
    /\ req = [r \in Procs |-> Idle]
    /\ resp = [r \in Procs |-> NoResp]
    /\ failedSince = [u \in UserIds |-> 0]
    /\ mate = [r \in Procs |-> 0]
    /\ budget = Unlimited

PasswordChanges ==
    {PatchBody({}, {c}, {p}, {}) :
        c \in {PwGood, PwNew, PwCommon}, p \in {PwNew, PwCommon, PwWeak}}

PolicyUseStep(r) ==
    \/ RegisterSteps(r, {"c@d.com"}, {PwGood, PwCommon, PwWeak})
    \/ \E b \in PasswordChanges : ProfileStart(r, "patch", 1, b)
    \/ AuthFindSession(r)
    \/ PatchFindUser(r)
    \/ PatchVerify(r)
    \/ PatchRevokeOthers(r)
    \/ PatchUpdate(r)
    \/ PatchReload(r)

PolicyUseNext == \E r \in SeqProcs : PolicyUseStep(r)
PolicyUseSpec == InitPolicyUse /\ [][PolicyUseNext]_vars

\* The password request r is carrying past its schema, if it carries one.
PasswordPastSchema(rq) ==
    IF rq.pc \in {"register_find", "register_insert"} THEN {rq.password}
    ELSE IF rq.pc \in {"patch_verify", "patch_revoke", "patch_update"}
    THEN rq.body.newPassword
    ELSE {}

\* C20: Register goes on to create a user, and UpdateProfile goes on to
\* store a new password, only with a password that the password policy
\* accepts; with any other password the request ends at validation and the
\* users are as they were.
C20_StoresOnlyPolicyPasswords ==
    [][\A r \in Procs :
          /\ \A p \in PasswordPastSchema(req'[r]) : PasswordSafeParse(p).success
          /\ users' # users =>
                 \A p \in PasswordPastSchema(req[r]) : PasswordSafeParse(p).success]_vars

(***************************************************************************)
(* The strength checker on its own (StrengthSpec): checkPasswordStrength   *)
(* applied to inputs put together from a head, a word and a tail.          *)
(***************************************************************************)
StrengthHeads == {<<>>, <<"A">>, <<"9">>}
StrengthWords ==
    {<<>>,
     <<"a", "a", "a">>,
     <<"a", "a", "b">>,
     <<"a", "b", "c">>,
     <<"A", "B", "C">>,
     <<"x", "Y", "z">>,
     <<"8", "9", "0">>,
     <<"9", "0", "1">>,
     <<"3", "2", "1">>,
     <<"z", "Z", "z">>,
     <<"7", "7", "7", "7">>,
     <<"\n", "\n", "\n">>,
     <<"\r", "\r", "\r", "\r">>,
     <<"a", "\n", "\n", "a">>,
     <<"A", "b", "d", "f", "h", "j", "K">>}
StrengthTails ==
    {<<>>, <<"!">>, <<"1", "a">>, <<"Q", "r", "t", "v", "x", "z", "0", "6", "!", "#", "%">>}
StrengthInputs ==
    {h \o w \o t : h \in StrengthHeads, w \in StrengthWords, t \in StrengthTails}

\* checkPasswordStrength(p), answered to the caller.
StrengthCheck(r, p) ==
    /\ Begin(r)
    /\ req' = [req EXCEPT ![r] = [pc |-> "done", op |-> "strength"]]
    /\ resp' = [resp EXCEPT ![r] =
                 NoResp @@ [input |-> p] @@ checkPasswordStrength(p)]
    /\ UNCHANGED <<users, sessions, nextUid, nextToken, clock, advances,
                   loginBucket, registerBucket, failedSince>>

StrengthNext == \E r \in SeqProcs, p \in StrengthInputs : StrengthCheck(r, p)
StrengthSpec == Init /\ [][StrengthNext]_vars

Scored(r) == req[r] = [pc |-> "done", op |-> "strength"]

\* Characters a, b, c stand one after another somewhere in the order
\* 0 ... 9 0 or a ... z, letter case aside.
AscendingRun(a, b, c, order) ==
    \E k \in 1..(Len(order) - 2) :
        /\ SameIgnoringCase(a, order[k])
        /\ SameIgnoringCase(b, order[k + 1])
        /\ SameIgnoringCase(c, order[k + 2])

\* The criteria of the eight that input q satisfies.
SatisfiedCriteria(q) ==
    {c \in {"length8"} : Len(q) >= 8}
    \cup {c \in {"length12"} : Len(q) >= 12}
    \cup {c \in {"lowercase"} : \E i \in DOMAIN q : q[i] \in LowerChars}
    \cup {c \in {"uppercase"} : \E i \in DOMAIN q : q[i] \in UpperChars}
    \cup {c \in {"digit"} : \E i \in DOMAIN q : q[i] \in DigitChars}
    \cup {c \in {"nonalphanumeric"} :
             \E i \in DOMAIN q :
                 q[i] \notin LowerChars \cup UpperChars \cup DigitChars}
    \cup {c \in {"norepeat"} :
             \A i \in 1..(Len(q) - 2) : ~(q[i] = q[i + 1] /\ q[i + 1] = q[i + 2])}
    \cup {c \in {"norun"} :
             \A i \in 1..(Len(q) - 2) :
                 \A order \in {DigitSequence \o <<"0">>, LowerLetters} :
                     ~AscendingRun(q[i], q[i + 1], q[i + 2], order)}

\* C21: the score of every input is the number of the eight criteria it
\* satisfies, it is from 0 to 8, and the input is strong exactly when the
\* score is at least 6.
C21_ScoreCountsCriteria ==
    \A r \in Procs :
        Scored(r) =>
            /\ resp[r].score = Cardinality(SatisfiedCriteria(resp[r].input))
            /\ resp[r].score \in 0..8
            /\ resp[r].isStrong <=> resp[r].score >= 6

(***************************************************************************)
(* Two accounts and two client addresses (IndepSpec): logins with wrong    *)
(* passwords, one after another, against either account from either        *)
(* address.                                                                *)
(***************************************************************************)
InitIndep ==
    /\ users = [u \in UserIds |-> IF u = 1 THEN Alice
                                  ELSE IF u = 2 THEN Carol ELSE NoUser]
    /\ sessions = {}
    /\ nextUid = 3
    /\ nextToken = 1
    /\ clock = 0
    /\ advances = 0
    /\ loginBucket = [i \in IPs |-> FreshBucket]
    /\ registerBucket = [i \in IPs |-> FreshBucket]
    /\ req = [r \in Procs |-> Idle]
    /\ resp = [r \in Procs |-> NoResp]
    /\ failedSince = [u \in UserIds |-> 0]
    /\ mate = [r \in Procs |-> 0]
    /\ budget = Unlimited

IndepStep(r) ==
    \/ \E ip \in IPs, e \in {"a@b.com", "c@d.com"} :
          LoginStart(r, ip, TRUE, e, PwNew, FALSE)
    \/ LoginFindUser(r)
    \/ LoginRecordFailure(r)

IndepNext == \E r \in SeqProcs : IndepStep(r)
IndepSpec == InitIndep /\ [][IndepNext]_vars

\* Request r is writing the failure of a login against the account with
\* the given email.
FailsAgainst(r, email) ==
    /\ req[r].pc = "login_fail"
    /\ req'[r].pc = "done"
    /\ req[r].email = email

\* C22: a failed login changes the counter and the lock of the account it
\* was made against only, from whichever address it came; and an account
\* with five failures is locked, however the five were spread over the
\* addresses.
C22_LockoutPerAccount ==
    /\ [](\A u \in UserIds :
             failedSince[u] >= MAX_LOGIN_ATTEMPTS =>
                 /\ users[u].loginAttempts = MAX_LOGIN_ATTEMPTS
                 /\ users[u].lockUntil >= 0)
    /\ [][\A u \in UserIds :
             users'[u] # users[u] =>
                 \E r \in Procs : FailsAgainst(r, users[u].email)]_vars

\* Alice is locked by five failures of which neither address made as many
\* as five, and Carol's account, tried from the same addresses, has one
\* failure and no lock.
C22_Witness ==
    /\ users[1].lockUntil >= 0
    /\ failedSince[1] = MAX_LOGIN_ATTEMPTS
    /\ failedSince[2] = 1
    /\ users[2].loginAttempts = 1
    /\ users[2].lockUntil < 0
    /\ \A i \in IPs : loginBucket[i].count = 3

(***************************************************************************)
(* Password confirmation in PATCH and DELETE /api/profile (SessSeqSpec).   *)
(***************************************************************************)
\* Request r is past authentication with a body that passed validation.
Authenticated(r, op) ==
    /\ req[r].pc \in {"auth_user", "patch_verify", "delete_verify"}
    /\ req[r].op = op
    /\ users[req[r].uid] # NoUser
    /\ req[r].body.wellFormed

\* The set c holds no password, or one that is not the stored one of u.
NotThePasswordOf(c, u) == \A p \in c : users[u].password # Hash(p)

\* Request r gets no further than the comparison of the password: it is
\* answered with one of the given codes, or with the 500 of a failed store
\* call, and the two collections are as they were.
RefusedUnchanged(r, codes) ==
    /\ req'[r].pc \in {"done", "patch_verify", "delete_verify"}
    /\ req'[r].pc = "done" => resp'[r].code \in codes \/ resp'[r].status = 500
    /\ users' = users
    /\ sessions' = sessions

\* C23: a profile update asking for a new password without the current
\* password, or with a wrong one, is refused, and the user's password,
\* name, preferences and sessions stay as they were.
C23_PasswordChangeNeedsCurrent ==
    [][\A r \in Procs :
          /\ Authenticated(r, "patch")
          /\ UpdateSchemaOK(req[r].body)
          /\ req[r].body.newPassword # {}
          /\ NotThePasswordOf(req[r].body.currentPassword, req[r].uid)
          /\ req'[r] # req[r]
          => RefusedUnchanged(r, {"CURRENT_PASSWORD_REQUIRED",
                                  "INVALID_CURRENT_PASSWORD"})]_vars

\* A password change with a wrong current password has been refused at
\* the comparison, and Alice and her two sessions are as before.
C23_Witness ==
    \E r \in Procs :
        /\ req[r] = [pc |-> "done", op |-> "patch"]
        /\ resp[r].code = "INVALID_CURRENT_PASSWORD"
        /\ users[1] = SuccessUpdate(Alice, 0)
        /\ sessions = {Issued(1, 1, 0, FALSE), Issued(2, 1, 0, TRUE)}

\* C24: an account deletion without the password, or with a wrong one, is
\* refused, and the user and all sessions, the caller's included, stay.
C24_DeletionNeedsPassword ==
    [][\A r \in Procs :
          /\ Authenticated(r, "delete")
          /\ NotThePasswordOf(req[r].body.password, req[r].uid)
          /\ req'[r] # req[r]
          => RefusedUnchanged(r, {"PASSWORD_REQUIRED", "INVALID_PASSWORD"})]_vars

\* A deletion with a wrong password has been refused at the comparison,
\* and Alice and her two sessions are as before.
C24_Witness ==
    \E r \in Procs :
        /\ req[r] = [pc |-> "done", op |-> "delete"]
        /\ resp[r].code = "INVALID_PASSWORD"
        /\ users[1] = SuccessUpdate(Alice, 0)
        /\ sessions = {Issued(1, 1, 0, FALSE), Issued(2, 1, 0, TRUE)}

(***************************************************************************)
(* One request against the store of InitSess (OneRequestSpec): any of the  *)
(* session handlers, with a store call that may fail at any point of it.   *)
(***************************************************************************)
UsersBefore ==
    [u \in UserIds |-> IF u = 1 THEN SuccessUpdate(Alice, 0)
                       ELSE IF u = 2 THEN Carol ELSE NoUser]
SessionsBefore == {Issued(1, 1, 0, FALSE), Issued(2, 1, 0, TRUE)}

InitOneRequest ==
    /\ users = UsersBefore
    /\ sessions = SessionsBefore
    /\ nextUid = 3
    /\ nextToken = 3
    /\ clock = 0
    /\ advances = 0
    /\ loginBucket = [i \in IPs |-> IF i = ClientIP
                                     THEN BucketAfter(BucketAfter(FreshBucket,
                                              LoginInterval, 0), LoginInterval, 0)
                                     ELSE FreshBucket]
    /\ registerBucket = [i \in IPs |-> FreshBucket]
    /\ req = [r \in Procs |-> Idle]
    /\ resp = [r \in Procs |-> NoResp]
    /\ failedSince = [u \in UserIds |-> 0]
    /\ mate = [r \in Procs |-> 0]
    /\ budget = 1

OneRequestNext == \E r \in SeqProcs : SessStep(r)
OneRequestSpec == InitOneRequest /\ [][OneRequestNext]_vars

\* Request r has ended with the failure that a failed store call gives.
FailedInStore(r) ==
    /\ req[r].pc = "done"
    /\ req[r].op \in {"login", "patch", "delete"}
    /\ resp[r].status = 500

\* C25: when a Login, UpdateProfile or DeleteAccount ends in failure
\* because a store call failed in the middle of it, the users and the
\* sessions are what they were before the request.
C25_NoPartialMutation ==
    \A r \in Procs :
        FailedInStore(r) => users = UsersBefore /\ sessions = SessionsBefore

(***************************************************************************)
(* Authentication of the profile handlers (SessSeqSpec).                   *)
(***************************************************************************)
ProfileOps == {"get", "patch", "delete"}

\* Request r starts a profile request in this step.
StartsProfile(r) ==
    /\ ~Busy(r)
    /\ req'[r] # req[r]
    /\ req'[r].op \in ProfileOps

\* Request r is a profile request about to look its token up, and no stored
\* session has that token and an expiry after now.
HoldsNoValidSession(r) ==
    /\ req[r].pc = "auth_session"
    /\ req[r].op \in ProfileOps
    /\ \A s \in sessions : s.token = req[r].token => clock >= s.expiresAt

\* C26: a profile request without a token is answered NOT_AUTHENTICATED,
\* one whose token is unknown or expired is answered INVALID_SESSION, and
\* in both cases users and sessions are left as they were.
C26_ProfileNeedsSession ==
    [][\A r \in Procs :
          /\ StartsProfile(r) =>
                 /\ users' = users /\ sessions' = sessions
                 /\ \/ /\ req'[r].pc = "done"
                       /\ resp'[r] = Response(401, "NOT_AUTHENTICATED")
                    \/ /\ req'[r].pc = "auth_session"
                       /\ req'[r].token # NoToken
          /\ HoldsNoValidSession(r) /\ req'[r] # req[r] =>
                 /\ users' = users /\ sessions' = sessions
                 /\ req'[r].pc = "done"
                 /\ \/ resp'[r] = Response(401, "INVALID_SESSION")
                    \/ resp'[r].status = 500]_vars

\* An account deletion has been refused for want of a valid session at
\* the instant the 24-hour session ran out; both sessions and Alice are
\* still stored.
C26_Witness ==
    \E r \in Procs :
        /\ req[r] = [pc |-> "done", op |-> "delete"]
        /\ resp[r] = Response(401, "INVALID_SESSION")
        /\ clock = 24 * 60 * 60
        /\ SessionsBefore \subseteq sessions
        /\ users[1] = SuccessUpdate(Alice, 0)

(***************************************************************************)
(* The first steps of login and register (ShortSpec): one account, logins  *)
(* against it with the right, a wrong and an empty password, registrations *)
(* with its email and with a malformed one, until the limiter rejects.     *)
(***************************************************************************)
ShortStep(r) ==
    \/ \E wf \in BOOLEAN, p \in {PwGood, PwOther, PwEmpty} :
          LoginStart(r, ClientIP, wf, "a@b.com", p, FALSE)
    \/ LoginFindUser(r)
    \/ LoginRecordFailure(r)
    \/ LoginRecordSuccess(r)
    \/ LoginCreateSession(r)
    \/ \E wf \in BOOLEAN, e \in {"a@b.com", "not-an-email"} :
          RegisterStart(r, ClientIP, wf, e, PwGood)
    \/ RegisterFindExisting(r)

ShortNext == \E r \in SeqProcs : ShortStep(r)
ShortSpec == InitLock /\ [][ShortNext]_vars

RejectedEarly ==
    {Response(429, "RATE_LIMIT_EXCEEDED"), Response(400, "INVALID_JSON"),
     Response(400, "VALIDATION_ERROR")}

\* Request r is answered in this step.
Answers(r) ==
    /\ req'[r].pc = "done"
    /\ \/ req'[r] # req[r]
       \/ resp'[r] # resp[r]
       \/ loginBucket' # loginBucket
       \/ registerBucket' # registerBucket

\* C27: a login or registration that the limiter or the validation rejects
\* is answered before any step that reaches the store and leaves users and
\* sessions as they were; and a request that takes its window past the
\* limit is so rejected, whatever password it carries.
C27_ShortCircuit ==
    [][\A r \in SeqProcs :
          /\ Answers(r) /\ resp'[r] \in RejectedEarly =>
                 /\ ~Busy(r)
                 /\ users' = users
                 /\ sessions' = sessions
          /\ \A ip \in IPs :
                 \/ /\ loginBucket'[ip] # loginBucket[ip]
                    /\ loginBucket'[ip].count > 10
                 \/ /\ registerBucket'[ip] # registerBucket[ip]
                    /\ registerBucket'[ip].count > 5
                 => /\ req'[r].pc = "done"
                    /\ resp'[r] = Response(429, "RATE_LIMIT_EXCEEDED")
                    /\ users' = users
                    /\ sessions' = sessions]_vars

\* The eleventh login of the window has been rejected while the account
\* was neither locked nor out of sessions to issue.
C27_Witness ==
    \E r \in SeqProcs :
        /\ req[r] = [pc |-> "done", op |-> "login"]
        /\ resp[r] = Response(429, "RATE_LIMIT_EXCEEDED")
        /\ loginBucket[ClientIP].count = 10 + 1
        /\ AttemptsOf(users[1]) < MAX_LOGIN_ATTEMPTS
        /\ sessions # {}
        /\ nextToken <= MaxTokens

(***************************************************************************)
(* The order of the two writes of a password change (SessSeqSpec).         *)
(***************************************************************************)
\* Request r, a profile update carrying a new password, removes sessions
\* in this step.
RevokesSiblings(r) ==
    /\ req[r].pc \in {"patch_verify", "patch_revoke", "patch_update"}
    /\ req[r].body.newPassword # {}
    /\ req'[r] # req[r]
    /\ sessions' # sessions

\* C28: a password change removes the user's other sessions only when the
\* user record already holds the digest of the new password.
C28_RevokeAfterUpdate ==
    [][\A r \in Procs :
          RevokesSiblings(r) =>
              users[req[r].uid].password = Hash(The(req[r].body.newPassword))]_vars

(***************************************************************************)
(* Session records between insertion and deletion (SessSeqSpec).           *)
(***************************************************************************)
\* C29: no step changes a stored session: in the next state a session
\* with the token of a stored one is that same record, with its userId,
\* createdAt, expiresAt, ip and userAgent; and looking a session up, as
\* every profile request does, leaves the sessions as they are.
C29_SessionsImmutable ==
    [][/\ \A s \in sessions : \A t \in sessions' : t.token = s.token => t = s
       /\ \A r \in Procs :
             req[r].pc = "auth_session" /\ req'[r] # req[r] =>
                 sessions' = sessions]_vars

\* A day after both of Alice's sessions were issued, her profile has been
\* read with the 30-day session, which is stored as it was issued.
C29_Witness ==
    \E r \in Procs :
        /\ req[r] = [pc |-> "done", op |-> "get"]
        /\ resp[r].code = "PROFILE_RETRIEVED"
        /\ clock = 24 * 60 * 60
        /\ Issued(2, 1, 0, TRUE) \in sessions

(***************************************************************************)
(* Every handler against one account (AllOpsSpec): Alice, with one session *)
(* and none, four or five failed logins behind her, so unlocked, one       *)
(* failure from the lock, or locked; Carol not yet registered.             *)
(***************************************************************************)
InitAllOps ==
    /\ \E n \in {0, MAX_LOGIN_ATTEMPTS - 1, MAX_LOGIN_ATTEMPTS} :
          /\ users = [u \in UserIds |-> IF u = 1 THEN AfterFailures(n) ELSE NoUser]
          /\ failedSince = [u \in UserIds |-> IF u = 1 THEN n ELSE 0]
    /\ sessions = {Issued(1, 1, 0, FALSE)}
    /\ nextUid = 2
    /\ nextToken = 2
    /\ clock = 0
    /\ advances = 0
    /\ loginBucket = [i \in IPs |-> FreshBucket]
    /\ registerBucket = [i \in IPs |-> FreshBucket]
    /\ req = [r \in Procs |-> Idle]
    /\ resp = [r \in Procs |-> NoResp]
    /\ mate = [r \in Procs |-> 0]
    /\ budget = MaxSeq

AllOpsStep(r) ==
    \/ LoginSteps(r, {ClientIP}, Bodies({"a@b.com"}, {PwGood, PwOther}))
    \/ RegisterSteps(r, {"c@d.com"}, {PwGood})
    \/ LogoutSteps(r)
    \/ ProfileSteps(r)
    \/ StoreFails(r)

AllOpsNext ==
    \/ \E r \in SeqProcs : AllOpsStep(r)
    \/ /\ \A r \in Procs : ~Busy(r)
       /\ Tick(LOCKOUT_DURATION)
AllOpsSpec == InitAllOps /\ [][AllOpsNext]_vars

\* Request r is a login that found the user of its email, found it not
\* locked at the time it read it, and whose password is the one of the
\* digest it read.
VerifiedLogin(r) ==
    /\ req[r].pc = "login_session"
    /\ req[r].op = "login"
    /\ req[r].user.email = req[r].email
    /\ ~(req[r].user.lockUntil >= 0 /\ req[r].user.lockUntil > req[r].now)
    /\ req[r].user.password = Hash(req[r].password)

\* C30: a session that a step adds to the store is added by a login that
\* found the user, found it not locked and verified the password, is
\* owned by that user, and the login is answered with success; no other
\* step adds a session.
C30_SessionsOnlyFromLogin ==
    [][\A s \in sessions' \ sessions :
          \E r \in Procs :
              /\ VerifiedLogin(r)
              /\ s.userId = req[r].uid
              /\ req'[r].pc = "done"
              /\ resp'[r].code = "LOGIN_SUCCESS"
              /\ resp'[r].cookie = s.token]_vars

\* Alice has logged in one lockout duration after the start, and the
\* session she was given is stored beside her first one.
C30_Witness ==
    \E r \in Procs :
        /\ resp[r].code = "LOGIN_SUCCESS"
        /\ req[r] = [pc |-> "done", op |-> "login"]
        /\ clock = LOCKOUT_DURATION
        /\ resp[r].now = clock
        /\ \E s \in sessions : s.token = resp[r].cookie /\ s.token = 2
        /\ Issued(1, 1, 0, FALSE) \in sessions

(***************************************************************************)
(* Logout from all devices (SessSeqSpec).                                  *)
(***************************************************************************)
\* C31: the step that answers a log-out-of-all-devices with success
\* removes every session of the user who owns the presented token, the
\* presented one and the expired ones included, removes nothing else, and
\* reports the number of sessions removed; no session of that user is
\* stored afterwards.
C31_LogoutAllRevokesAll ==
    [][\A r \in Procs :
          req[r].pc = "logoutAll_delete" /\ resp'[r].code = "LOGOUT_ALL_SUCCESS" =>
              /\ \E s \in sessions : s.token = req[r].token
              /\ \A s \in sessions :
                     s.token = req[r].token =>
                         /\ \A t \in sessions : t.userId = s.userId <=> t \notin sessions'
                         /\ \A t \in sessions' : t \in sessions /\ t.userId # s.userId
              /\ resp'[r].sessionsDeleted = Cardinality(sessions \ sessions')]_vars

\* A day after they were issued, Alice has logged out of all devices with
\* her 30-day session: both her sessions, the expired one too, are gone and
\* counted, and Carol's session is still stored.
C31_Witness ==
    \E r \in Procs :
        /\ resp[r].code = "LOGOUT_ALL_SUCCESS"
        /\ resp[r].sessionsDeleted = 2
        /\ clock = 24 * 60 * 60
        /\ \A s \in sessions : s.userId = 2
        /\ sessions # {}

(***************************************************************************)
(* What a profile update writes (SessSeqSpec).                             *)
(***************************************************************************)
\* The value of an optional field of a body, or the old value without it.
Supplied(field, old) == IF field = {} THEN old ELSE The(field)

\* C32: the step in which a profile update writes the user record changes
\* the name, the password and the preference keys that the body supplies
\* to the supplied values and, updatedAt aside, nothing else: email,
\* lockout state, the fields without a supplied value and the preference
\* keys not supplied keep their values.
C32_PatchMerges ==
    [][\A r \in Procs :
          req[r].pc = "patch_update" /\ req'[r].pc = "patch_reload" =>
              LET old == users[req[r].uid]
                  new == users'[req[r].uid]
                  body == req[r].body
                  patch == Supplied(body.preferences, <<>>)
              IN  /\ \A u \in UserIds \ {req[r].uid} : users'[u] = users[u]
                  /\ DOMAIN new = DOMAIN old
                  /\ \A f \in DOMAIN old \ {"updatedAt", "name", "password",
                                              "preferences"} : new[f] = old[f]
                  /\ new.name = Supplied(body.name, old.name)
                  /\ new.password =
                         IF body.newPassword = {} THEN old.password
                         ELSE Hash(The(body.newPassword))
                  /\ DOMAIN new.preferences =
                         DOMAIN old.preferences \cup DOMAIN patch
                  /\ \A k \in DOMAIN new.preferences :
                         new.preferences[k] =
                             IF k \in DOMAIN patch THEN patch[k]
                             ELSE old.preferences[k]]_vars

\* Alice has set the theme alone: it is stored, and her notifications
\* setting, name, email and password are what they were.
C32_Witness ==
    \E r \in Procs :
        /\ resp[r].code = "PROFILE_UPDATED"
        /\ users[1].preferences = [notifications |-> TRUE, theme |-> "dark"]
        /\ users[1].name = Alice.name
        /\ users[1].email = Alice.email
        /\ users[1].password = Alice.password

(***************************************************************************)
(* A profile request whose user has been deleted (SessSpec).               *)
(***************************************************************************)
\* Request r, past its session lookup, makes a store call that reads or
\* updates the user the session belongs to.
UserLookup(r) ==
    \/ GetProfile(r)
    \/ PatchFindUser(r)
    \/ PatchVerify(r)
    \/ PatchUpdate(r)
    \/ DeleteFindUser(r)
    \/ DeleteVerify(r)

BodyRejections ==
    {"INVALID_JSON", "VALIDATION_ERROR", "CURRENT_PASSWORD_REQUIRED",
     "PASSWORD_REQUIRED"}

\* C33: when a profile request that holds a valid session finds that the
\* user of the session is no longer stored, the request ends there, with
\* USER_NOT_FOUND (a body that is refused for itself aside), and the users
\* and the sessions are unchanged.
C33_VanishedUserIsNotFound ==
    [][\A r \in Procs :
          req[r].pc \in {"auth_user", "patch_verify", "patch_update",
                         "delete_verify"}
          /\ users[req[r].uid] = NoUser
          /\ UserLookup(r) =>
              /\ req'[r].pc = "done"
              /\ resp'[r].code \in {"USER_NOT_FOUND"} \cup BodyRejections
              /\ users' = users
              /\ sessions' = sessions]_vars

(***************************************************************************)
(* Deletion, with requests in flight and a registration after it          *)
(* (TerminalSpec).                                                         *)
(***************************************************************************)
\* Alice is registered and logged in; her email can be registered again.
InitTerminal ==
    /\ users = [u \in UserIds |-> IF u = 1 THEN Alice ELSE NoUser]
    /\ sessions = {Issued(1, 1, 0, FALSE)}
    /\ nextUid = 2
    /\ nextToken = 2
    /\ clock = 0
    /\ advances = 0
    /\ loginBucket = [i \in IPs |-> FreshBucket]
    /\ registerBucket = [i \in IPs |-> FreshBucket]
    /\ req = [r \in Procs |-> Idle]
    /\ resp = [r \in Procs |-> NoResp]
    /\ failedSince = [u \in UserIds |-> 0]
    /\ mate = [r \in Procs |-> 0]
    /\ budget = MaxSeq + 1

TerminalStep(r) ==
    \/ \E p \in {PwGood, PwOther} :
          LoginStart(r, ClientIP, TRUE, "a@b.com", p, FALSE)
    \/ LoginFindUser(r)
    \/ LoginRecordFailure(r)
    \/ LoginRecordSuccess(r)
    \/ LoginCreateSession(r)
    \/ ProfileStart(r, "patch", 1, PatchBody({"Bob"}, {}, {}, {}))
    \/ ProfileStart(r, "delete", 1, [wellFormed |-> TRUE, password |-> {PwGood}])
    \/ AuthFindSession(r)
    \/ PatchFindUser(r)
    \/ PatchUpdate(r)
    \/ PatchReload(r)
    \/ DeleteFindUser(r)
    \/ DeleteVerify(r)
    \/ DeleteTxnSessions(r)
    \/ DeleteTxnUser(r)
    \/ RegisterStart(r, ClientIP, TRUE, "a@b.com", PwGood)
    \/ RegisterFindExisting(r)
    \/ RegisterInsert(r)

TerminalNext == \E r \in Procs : TerminalStep(r)
TerminalSpec == InitTerminal /\ [][TerminalNext]_vars

\* C34: a step that makes a user record appear where there was none is
\* the insert of a registration that is answered with success, and the
\* record has a new identity and the registered email; no step changes
\* the email of a stored record.  So after a deletion no update of a login
\* or of a profile request brings the record back, and the email is found
\* again only once it has been registered again.
C34_DeletionTerminal ==
    [][/\ \A u \in UserIds :
            users[u] = NoUser /\ users'[u] # NoUser =>
                /\ u = nextUid
                /\ nextUid' = nextUid + 1
                /\ \E r \in Procs :
                       /\ req[r].pc = "register_insert"
                       /\ resp'[r].code = "REGISTRATION_SUCCESS"
                       /\ users'[u].email = req[r].email
       /\ \A u \in UserIds :
            users[u] # NoUser /\ users'[u] # NoUser =>
                users'[u].email = users[u].email]_vars

\* Alice's account has been deleted and her email registered again, while
\* a login that read the deleted record has still to write its failure.
C34_Witness ==
    \E r \in Procs :
        /\ req[r].pc = "login_fail"
        /\ req[r].uid = 1
        /\ users[1] = NoUser
        /\ users[2] # NoUser
        /\ users[2].email = "a@b.com"

(***************************************************************************)
(* Expired sessions in the store (CleanupSpec).                            *)
(***************************************************************************)
\* The handlers one request after another, any number of requests, with
\* time passing; every request gets its response and the next one follows.
InitCleanup ==
    /\ users = [u \in UserIds |-> IF u = 1 THEN SuccessUpdate(Alice, 0)
                                  ELSE IF u = 2 THEN Carol ELSE NoUser]
    /\ sessions = {Issued(1, 1, 0, FALSE), Issued(2, 1, 0, TRUE)}
    /\ nextUid = 3
    /\ nextToken = 3
    /\ clock = 0
    /\ advances = 0
    /\ loginBucket = [i \in IPs |-> FreshBucket]
    /\ registerBucket = [i \in IPs |-> FreshBucket]
    /\ req = [r \in Procs |-> Idle]
    /\ resp = [r \in Procs |-> NoResp]
    /\ failedSince = [u \in UserIds |-> 0]
    /\ mate = [r \in Procs |-> 0]
    /\ budget = Unlimited

\* Reading the profile and logging out, with any cookie.
CleanupStep(r) ==
    \/ \E t \in Cookies : ProfileStart(r, "get", t, NoBody)
    \/ AuthFindSession(r)
    \/ GetProfile(r)
    \/ \E t \in Cookies : LogoutStart(r, t)
    \/ LogoutFind(r)
    \/ LogoutDelete(r)

CleanupNext ==
    \/ \E r \in SeqProcs : CleanupStep(r)
    \/ /\ \A r \in Procs : ~Busy(r)
       /\ \E rm \in BOOLEAN : Tick(SessionTtl(rm))

CleanupSpec == InitCleanup /\ [][CleanupNext]_vars /\ WF_vars(CleanupNext)

\* A session with token t is stored and its expiry has passed.
StoredExpired(t) == \E s \in sessions : s.token = t /\ s.expiresAt <= clock

\* C35: a stored session whose expiry has passed is eventually no longer
\* in the sessions collection.
C35_ExpiredSessionsRemoved ==
    \A t \in Tokens : StoredExpired(t) ~> (\A s \in sessions : s.token # t)

(***************************************************************************)
(* Wrong passwords tried against one account (RaceSpec).                   *)
(***************************************************************************)
\* C36: an account against which 5 wrong passwords have been verified
\* since its counter was last cleared (failedSince) has had its lock set:
\* no interleaving of logins gives 5 failed guesses, and so a sixth, at an
\* account that was never locked.
C36_BoundedGuessing ==
    \A u \in UserIds :
        (users[u] # NoUser /\ NotLocked(users[u])) =>
            failedSince[u] < MAX_LOGIN_ATTEMPTS

(***************************************************************************)
(* A password change and a login in flight (SessSpec).                     *)
(***************************************************************************)
\* C37: a login that inserts a session for a user has verified the digest
\* that the user record holds at the time of the insert: a login that
\* verified a password which has since been changed leaves no session.
C37_NoSessionFromOldPassword ==
    [][\A r \in Procs :
          req[r].pc = "login_session" /\ sessions' # sessions
          /\ users[req[r].uid] # NoUser =>
              users[req[r].uid].password = req[r].user.password]_vars

(***************************************************************************)
(* A wrong password after a lockout has run out (LockSeqSpec).             *)
(***************************************************************************)
\* C38: an account whose lockUntil is set has a counter of at least 5,
\* whether the lock is still in force or not; and a login that writes a
\* failure for an account whose lockUntil is set (the lock has run out, and
\* no login has succeeded since) adds one to the counter, sets lockUntil
\* to its time plus 30 minutes and reports no attempts remaining.
C38_RelockAfterExpiry ==
    /\ [](\A u \in UserIds :
            (users[u] # NoUser /\ users[u].lockUntil >= 0) =>
                AttemptsOf(users[u]) >= MAX_LOGIN_ATTEMPTS)
    /\ [][\A r \in Procs :
             req[r].pc = "login_fail" /\ resp'[r].code = "INVALID_CREDENTIALS"
             /\ users[req[r].uid].lockUntil >= 0 =>
                 /\ users[req[r].uid].lockUntil <= req[r].now
                 /\ users'[req[r].uid].loginAttempts =
                        users[req[r].uid].loginAttempts + 1
                 /\ users'[req[r].uid].lockUntil = req[r].now + LOCKOUT_DURATION
                 /\ resp'[r].locked
                 /\ resp'[r].attemptsRemaining = 0]_vars

\* The account was locked by 5 wrong passwords, the lock ran out, and a
\* sixth wrong password has locked it again.
C38_Witness ==
    \E r \in Procs :
        /\ resp[r].code = "INVALID_CREDENTIALS"
        /\ HasField(resp[r], "read")
        /\ resp[r].read = MAX_LOGIN_ATTEMPTS
        /\ resp[r].attemptsRemaining = 0
        /\ users[1].loginAttempts = MAX_LOGIN_ATTEMPTS + 1
        /\ users[1].lockUntil >= 2 * LOCKOUT_DURATION

(***************************************************************************)
(* What a request changes of other users (SessSpec).                       *)
(***************************************************************************)
OwnerOps == {"patch", "delete", "logoutAll"}

\* The user that request r, past its session lookup, acts for.
ActsFor(r) == IF req[r].op = "logoutAll" THEN req[r].userId ELSE req[r].uid

\* C39: a profile update, an account deletion or a log-out-of-all-devices
\* acts for the user who owns the session of the presented token: its
\* session lookup changes nothing and yields that user, and every later
\* step of the request leaves the user records of all other users and the
\* sessions of all other users as they are.
C39_OnlyTheOwner ==
    [][\A r \in Procs :
          /\ (/\ req[r].pc \in {"auth_session", "logoutAll_find"}
              /\ req[r].op \in OwnerOps
              /\ req'[r] # req[r]) =>
                 /\ users' = users
                 /\ sessions' = sessions
                 /\ req'[r].pc # "done" =>
                        \E s \in sessions :
                            /\ s.token = req[r].token
                            /\ s.userId = IF req[r].op = "logoutAll"
                                          THEN req'[r].userId ELSE req'[r].uid
          /\ (/\ req[r].pc \notin {"idle", "done", "auth_session", "logoutAll_find"}
              /\ req[r].op \in OwnerOps
              /\ req'[r] # req[r]) =>
                 /\ \A u \in UserIds \ {ActsFor(r)} : users'[u] = users[u]
                 /\ \A s \in sessions \cup sessions' :
                        s.userId # ActsFor(r) => (s \in sessions /\ s \in sessions')]_vars

\* Alice has deleted her account while Carol is logged in: Carol's record
\* and session are there.
C39_Witness ==
    \E r \in Procs :
        /\ resp[r].code = "ACCOUNT_DELETED"
        /\ users[1] = NoUser
        /\ users[2] # NoUser
        /\ \E s \in sessions : s.userId = 2

(***************************************************************************)
(* Two preference updates of one user at the same time (PrefSpec).         *)
(***************************************************************************)
Quiet == [notifications |-> FALSE]

\* The first request slot sets the theme alone, the others the
\* notifications alone.
PrefPatch(r) == PatchBody({}, {}, {}, {IF r = 1 THEN Dark ELSE Quiet})

PrefStep(r) ==
    \/ \E t \in {1, 2} : ProfileStart(r, "patch", t, PrefPatch(r))
    \/ AuthFindSession(r)
    \/ PatchFindUser(r)
    \/ PatchUpdate(r)
    \/ PatchReload(r)
    \/ StoreFails(r)

PrefNext == \E r \in Procs : PrefStep(r)
PrefSpec == InitSess /\ [][PrefNext]_vars

\* C40: when an update of the theme alone and an update of the
\* notifications alone, both for Alice, have both been answered with
\* success, her stored preferences hold both new values.
C40_BothPreferencesStored ==
    \A r1, r2 \in Procs :
        (/\ r1 = 1 /\ r2 # 1
         /\ resp[r1].code = "PROFILE_UPDATED"
         /\ resp[r2].code = "PROFILE_UPDATED") =>
            /\ users[1].preferences.theme = "dark"
            /\ users[1].preferences.notifications = FALSE

=============================================================================
